---------------------------- MODULE Spec2Model ----------------------------
(***************************************************************************)
(* Duplicate detection engine of the provider validation system            *)
(* (agents/duplicate_detection_agent.py).                                  *)
(***************************************************************************)
EXTENDS Integers, Sequences, FiniteSets, TLC

(***************************************************************************)
(* Operators are evaluated by name; Let evaluates `value` once and hands   *)
(* the result to Body, as an assignment to a local does.                   *)
(***************************************************************************)
Let(value, Body(_)) == CHOOSE r \in { Body(x) : x \in {value} } : TRUE
Let2(value1, value2, Body(_, _)) ==
    CHOOSE r \in { Body(x, y) : x \in {value1}, y \in {value2} } : TRUE

(***************************************************************************)
(* Python floats are IEEE 754 binary64.  A non-negative float is modelled  *)
(* exactly as [m, e], value m * 2^e, with m a natural number of exactly    *)
(* MantBits bits (or zero).  Naturals wider than a machine word are        *)
(* little-endian sequences of limbs below LimbBase, without leading zero   *)
(* limbs.                                                                  *)
(***************************************************************************)
LimbBits == 14
LimbBase == 2^LimbBits
MantBits == 53

RECURSIVE BNorm(_)
BNorm(a0) ==
    Let(a0, LAMBDA a :
        IF a = <<>> THEN <<>>
        ELSE IF a[Len(a)] = 0 THEN BNorm(SubSeq(a, 1, Len(a) - 1))
        ELSE a)

RECURSIVE BFromInt(_)
BFromInt(n) == IF n = 0 THEN <<>>
               ELSE <<n % LimbBase>> \o BFromInt(n \div LimbBase)

RECURSIVE BToInt(_)
BToInt(a0) ==
    Let(a0, LAMBDA a : IF a = <<>> THEN 0 ELSE a[1] + LimbBase * BToInt(Tail(a)))

Limb(a, i) == IF i <= Len(a) THEN a[i] ELSE 0

\* a + b + carry from limb k up, a and b evaluated
RECURSIVE BAddFrom(_, _, _, _)
BAddFrom(a, b, k, carry0) ==
    Let(carry0, LAMBDA carry :
        IF k > Len(a) /\ k > Len(b)
        THEN (IF carry = 0 THEN <<>> ELSE <<carry>>)
        ELSE Let(Limb(a, k) + Limb(b, k) + carry, LAMBDA t :
                 <<t % LimbBase>> \o BAddFrom(a, b, k + 1, t \div LimbBase)))

BAdd(a0, b0) == Let2(a0, b0, LAMBDA a, b : BNorm(BAddFrom(a, b, 1, 0)))

\* a * c + carry from limb k up, a evaluated, 0 <= c <= LimbBase
RECURSIVE BMulSmallFrom(_, _, _, _)
BMulSmallFrom(a, c, k, carry0) ==
    Let(carry0, LAMBDA carry :
        IF k > Len(a)
        THEN (IF carry = 0 THEN <<>> ELSE <<carry>>)
        ELSE Let(a[k] * c + carry, LAMBDA t :
                 <<t % LimbBase>> \o BMulSmallFrom(a, c, k + 1, t \div LimbBase)))

BMulSmall(a0, c0) == Let2(a0, c0, LAMBDA a, c : BNorm(BMulSmallFrom(a, c, 1, 0)))

\* a * (b from limb k up), a and b evaluated
RECURSIVE BMulFrom(_, _, _)
BMulFrom(a, b, k) ==
    IF k > Len(b) \/ a = <<>> THEN <<>>
    ELSE BAdd(BMulSmall(a, b[k]), <<0>> \o BMulFrom(a, b, k + 1))

BMul(a0, b0) == Let2(a0, b0, LAMBDA a, b : BNorm(BMulFrom(a, b, 1)))

RECURSIVE Zeros(_)
Zeros(k) == IF k = 0 THEN <<>> ELSE <<0>> \o Zeros(k - 1)

\* a * 2^s
BShl(a0, s0) ==
    Let2(a0, s0, LAMBDA a, s :
        IF a = <<>> THEN <<>>
        ELSE Zeros(s \div LimbBits) \o BMulSmall(a, 2^(s % LimbBits)))

\* quotient limbs (top first) and remainder of (rem, a[1..k]) by d,
\* 1 <= d <= LimbBase, a evaluated
RECURSIVE BDivSmallFrom(_, _, _, _, _)
BDivSmallFrom(a, d, k, rem0, quot0) ==
    Let2(rem0, quot0, LAMBDA rem, quot :
        IF k = 0 THEN [q |-> quot, r |-> rem]
        ELSE Let(rem * LimbBase + a[k], LAMBDA t :
                 BDivSmallFrom(a, d, k - 1, t % d, <<t \div d>> \o quot)))

BDivSmall(a0, d0) ==
    Let2(a0, d0, LAMBDA a, d :
        Let(BDivSmallFrom(a, d, Len(a), 0, <<>>), LAMBDA x :
            [q |-> BNorm(x.q), r |-> x.r]))

\* floor(a / 2^s)
BShr(a0, s0) ==
    Let2(a0, s0, LAMBDA a, s :
        IF s \div LimbBits >= Len(a) THEN <<>>
        ELSE BDivSmall(SubSeq(a, (s \div LimbBits) + 1, Len(a)), 2^(s % LimbBits)).q)

\* a mod 2^s = 0, a evaluated
BLowZero(a, s) ==
    /\ \A i \in 1..(s \div LimbBits) : Limb(a, i) = 0
    /\ Limb(a, (s \div LimbBits) + 1) % (2^(s % LimbBits)) = 0

\* bit s of a (bit 0 is the lowest), a evaluated
BBit(a, s) == (Limb(a, (s \div LimbBits) + 1) \div (2^(s % LimbBits))) % 2

RECURSIVE IntBitLen(_)
IntBitLen(n) == IF n = 0 THEN 0 ELSE 1 + IntBitLen(n \div 2)

BBitLen(a0) ==
    Let(a0, LAMBDA a :
        IF a = <<>> THEN 0 ELSE LimbBits * (Len(a) - 1) + IntBitLen(a[Len(a)]))

\* a < b from limb k down, both evaluated, normalised and of one length
RECURSIVE BLessFrom(_, _, _)
BLessFrom(a, b, k) ==
    IF k = 0 THEN FALSE
    ELSE IF a[k] # b[k] THEN a[k] < b[k]
    ELSE BLessFrom(a, b, k - 1)

BLess(a0, b0) ==
    Let2(a0, b0, LAMBDA a, b :
        IF Len(a) # Len(b) THEN Len(a) < Len(b) ELSE BLessFrom(a, b, Len(a)))

\* the nearest integer to a / 2^s, ties to even
BRoundShr(a0, s0) ==
    Let2(a0, s0, LAMBDA a, s :
        IF s = 0 THEN a
        ELSE Let(BShr(a, s), LAMBDA q :
                 IF BBit(a, s - 1) = 1 /\ (~BLowZero(a, s - 1) \/ BBit(q, 0) = 1)
                 THEN BAdd(q, <<1>>)
                 ELSE q))

FZero == [m |-> <<>>, e |-> 0]

\* the float nearest to bigM * 2^bigE (round-half-even, the IEEE default)
FRound(bigM0, bigE0) ==
    Let2(bigM0, bigE0, LAMBDA bigM, bigE :
        Let(BBitLen(bigM), LAMBDA n :
            IF n = 0 THEN FZero
            ELSE IF n <= MantBits
            THEN [m |-> BShl(bigM, MantBits - n), e |-> bigE - (MantBits - n)]
            ELSE Let(BRoundShr(bigM, n - MantBits), LAMBDA q :
                     IF BBitLen(q) > MantBits
                     THEN [m |-> BShr(q, 1), e |-> bigE + (n - MantBits) + 1]
                     ELSE [m |-> q, e |-> bigE + (n - MantBits)])))

\* x + y
FAdd(x0, y0) ==
    Let2(x0, y0, LAMBDA x, y :
        IF x.m = <<>> THEN y
        ELSE IF y.m = <<>> THEN x
        ELSE IF x.e <= y.e
             THEN FRound(BAdd(BShl(y.m, y.e - x.e), x.m), x.e)
             ELSE FRound(BAdd(BShl(x.m, x.e - y.e), y.m), y.e))

FOne == [m |-> BShl(<<1>>, MantBits - 1), e |-> 1 - MantBits]

\* x * y (0 * y = 0 and 1 * y = y need no rounding)
FMul(x0, y0) ==
    Let2(x0, y0, LAMBDA x, y :
        IF x.m = <<>> \/ y.m = <<>> THEN FZero
        ELSE IF x = FOne THEN y
        ELSE IF y = FOne THEN x
        ELSE FRound(BMul(x.m, y.m), x.e + y.e))

\* k / n for integers k >= 0, 0 < n < LimbBase (Python's true division)
FDivInt(k, n) ==
    Let(BDivSmall(BShl(BFromInt(k), 60), n), LAMBDA d :
        FRound(BAdd(BShl(d.q, 1), IF d.r = 0 THEN <<>> ELSE <<1>>), -61))

\* x < y
FLess(x0, y0) ==
    Let2(x0, y0, LAMBDA x, y :
        IF y.m = <<>> THEN FALSE
        ELSE IF x.m = <<>> THEN TRUE
        ELSE IF x.e # y.e THEN x.e < y.e
        ELSE BLess(x.m, y.m))

\* x >= y
FGeq(x, y) == ~FLess(x, y)

Float100 == FDivInt(100, 1)

\* round(x * 100, 1), as the number of tenths (Python rounds the exact
\* binary value to one decimal, ties to even)
RoundPercent(x) ==
    Let(FMul(x, Float100), LAMBDA y :
        IF y.m = <<>> THEN 0
        ELSE BToInt(BRoundShr(BMulSmall(y.m, 10), -y.e)))

(***************************************************************************)
(* Python values.  A str is the sequence of its characters; every value    *)
(* carries its type and the text str() gives for it.                       *)
(***************************************************************************)
PyStr(s) == [t |-> "str", s |-> s]
PyNone == [t |-> "none", s |-> <<"N","o","n","e">>]
\* an int >= 0, with the decimal digits str() gives it
PyInt(digits) == [t |-> "int", s |-> digits]
EmptyStr == PyStr(<<>>)

\* bool(v)
Truthy(v) == \/ v.t = "str" /\ v.s # <<>>
             \/ v.t = "int" /\ v.s # <<"0">>

\* dict.get(key, default)
Get(d, key, default) == IF key \in DOMAIN d THEN d[key] ELSE default

UpperLetters == <<"A","B","C","D","E","F","G","H","I","J","K","L","M","N","O","P","Q","R","S","T","U","V","W","X","Y","Z">>
LowerLetters == <<"a","b","c","d","e","f","g","h","i","j","k","l","m","n","o","p","q","r","s","t","u","v","w","x","y","z">>
Digits == {"0","1","2","3","4","5","6","7","8","9"}
Whitespace == {" ", "\t"}

LowerChar(c) == IF \E i \in 1..Len(UpperLetters) : UpperLetters[i] = c
                THEN LowerLetters[CHOOSE i \in 1..Len(UpperLetters) : UpperLetters[i] = c]
                ELSE c
UpperChar(c) == IF \E i \in 1..Len(LowerLetters) : LowerLetters[i] = c
                THEN UpperLetters[CHOOSE i \in 1..Len(LowerLetters) : LowerLetters[i] = c]
                ELSE c

RECURSIVE LowerFrom(_, _)
LowerFrom(s, k) ==
    IF k > Len(s) THEN <<>> ELSE <<LowerChar(s[k])>> \o LowerFrom(s, k + 1)
RECURSIVE UpperFrom(_, _)
UpperFrom(s, k) ==
    IF k > Len(s) THEN <<>> ELSE <<UpperChar(s[k])>> \o UpperFrom(s, k + 1)

\* str.lower(), str.upper()
lower(s0) == Let(s0, LAMBDA s : LowerFrom(s, 1))
upper(s0) == Let(s0, LAMBDA s : UpperFrom(s, 1))

\* the first index from k up whose character is no whitespace (Len + 1: none)
RECURSIVE FirstInk(_, _)
FirstInk(s, k) ==
    IF k <= Len(s) /\ s[k] \in Whitespace THEN FirstInk(s, k + 1) ELSE k
\* the last index from k down whose character is no whitespace (0: none)
RECURSIVE LastInk(_, _)
LastInk(s, k) ==
    IF k >= 1 /\ s[k] \in Whitespace THEN LastInk(s, k - 1) ELSE k

\* str.strip()
strip(s0) == Let(s0, LAMBDA s : SubSeq(s, FirstInk(s, 1), LastInk(s, Len(s))))

\* str.split(): the maximal runs of non-whitespace characters from index k
\* up, in order; `start` is where the run being read began (0: in no run)
RECURSIVE SplitFrom(_, _, _)
SplitFrom(s, k, start) ==
    IF k > Len(s)
    THEN (IF start = 0 THEN <<>> ELSE <<SubSeq(s, start, Len(s))>>)
    ELSE IF s[k] \in Whitespace
         THEN (IF start = 0 THEN <<>> ELSE <<SubSeq(s, start, k - 1)>>)
              \o SplitFrom(s, k + 1, 0)
         ELSE SplitFrom(s, k + 1, IF start = 0 THEN k ELSE start)

split(s0) == Let(s0, LAMBDA s : SplitFrom(s, 1, 0))

\* set(list)
ToSet(seq0) == Let(seq0, LAMBDA seq : {seq[i] : i \in 1..Len(seq)})

\* s[k:].startswith(prefix), s and prefix evaluated
StartsAt(s, k, prefix) ==
    k + Len(prefix) - 1 <= Len(s) /\ SubSeq(s, k, k + Len(prefix) - 1) = prefix

\* s.startswith(prefix)
StartsWith(s0, prefix) == Let(s0, LAMBDA s : StartsAt(s, 1, prefix))

\* sub in s
Contains(sub0, s0) ==
    Let2(sub0, s0, LAMBDA sub, s : \E k \in 1..(Len(s) - Len(sub) + 1) : StartsAt(s, k, sub))

\* s[k:].replace(old, new): leftmost non-overlapping occurrences, old non-empty
RECURSIVE ReplaceFrom(_, _, _, _)
ReplaceFrom(s, k, old, new) ==
    IF k > Len(s) THEN <<>>
    ELSE IF StartsAt(s, k, old)
         THEN new \o ReplaceFrom(s, k + Len(old), old, new)
         ELSE <<s[k]>> \o ReplaceFrom(s, k + 1, old, new)

\* s.replace(old, new)
replace(s0, old, new) == Let(s0, LAMBDA s : ReplaceFrom(s, 1, old, new))

\* ' '.join(parts[k:])
RECURSIVE JoinFrom(_, _)
JoinFrom(parts, k) ==
    IF k > Len(parts) THEN <<>>
    ELSE IF k = Len(parts) THEN parts[k]
    ELSE parts[k] \o <<" ">> \o JoinFrom(parts, k + 1)

\* ' '.join(parts)
join(parts0) == Let(parts0, LAMBDA parts : JoinFrom(parts, 1))

\* re.sub(r'\D', '', s)
DigitsOf(s) == SelectSeq(s, LAMBDA c : c \in Digits)

\* s[:n] and s[-n:]
Prefix(s0, n) == Let(s0, LAMBDA s : SubSeq(s, 1, IF Len(s) < n THEN Len(s) ELSE n))
Suffix(s0, n) ==
    Let(s0, LAMBDA s : SubSeq(s, IF Len(s) < n THEN 1 ELSE Len(s) - n + 1, Len(s)))


\* list[::-1]
Reverse(s) == SubSeq([k \in 1..Len(s) |-> s[Len(s) + 1 - k]], 1, Len(s))
(***************************************************************************)
(* The similarity scorer.                                                  *)
(***************************************************************************)
\* the float literals 0.0, 1.0, 0.5
F0 == FZero
F1 == FDivInt(1, 1)
FHalf == FDivInt(1, 2)

\* a fault for C1: the NPI weight raised to 0.35, so the weights sum to 1.05
FIELD_WEIGHTS_HeavyNpi ==
    [npi       |-> FDivInt(35, 100),
     name      |-> FDivInt(25, 100),
     phone     |-> FDivInt(15, 100),
     address   |-> FDivInt(15, 100),
     license   |-> FDivInt(10, 100),
     specialty |-> FDivInt(5, 100)]

\* a fault for C26: five hundredths moved from the NPI weight to the name
\* weight, so the terms other than the NPI term add up to 0.75
FIELD_WEIGHTS_HeavyName ==
    [npi       |-> FDivInt(25, 100),
     name      |-> FDivInt(30, 100),
     phone     |-> FDivInt(15, 100),
     address   |-> FDivInt(15, 100),
     license   |-> FDivInt(10, 100),
     specialty |-> FDivInt(5, 100)]

\* a fault for C14: the NPI weight lowered to 0.20
FIELD_WEIGHTS_LightNpi ==
    [npi       |-> FDivInt(20, 100),
     name      |-> FDivInt(25, 100),
     phone     |-> FDivInt(15, 100),
     address   |-> FDivInt(15, 100),
     license   |-> FDivInt(10, 100),
     specialty |-> FDivInt(5, 100)]

\* a fault for C3: the name weight lowered to 0.20, so a full match gives 0.95
FIELD_WEIGHTS_LightName ==
    [npi       |-> FDivInt(30, 100),
     name      |-> FDivInt(20, 100),
     phone     |-> FDivInt(15, 100),
     address   |-> FDivInt(15, 100),
     license   |-> FDivInt(10, 100),
     specialty |-> FDivInt(5, 100)]

FIELD_WEIGHTS ==
    [npi       |-> FDivInt(30, 100),
     name      |-> FDivInt(25, 100),
     phone     |-> FDivInt(15, 100),
     address   |-> FDivInt(15, 100),
     license   |-> FDivInt(10, 100),
     specialty |-> FDivInt(5, 100)]

\* a fault for C4: the finder's threshold lowered to 0.70
SIMILARITY_THRESHOLD_Lowered == FDivInt(70, 100)

SIMILARITY_THRESHOLD == FDivInt(75, 100)

\* a fault for C15: the sets hold the characters of the strings, not their
\* whitespace-separated tokens
string_similarity_OfCharacters(s10, s20) ==
    Let2(s10, s20, LAMBDA s1, s2 :
        IF s1 = <<>> \/ s2 = <<>> THEN F0
        ELSE IF s1 = s2 THEN F1
        ELSE Let2(ToSet(lower(s1)), ToSet(lower(s2)),
                  LAMBDA tokens1, tokens2 :
                      FDivInt(Cardinality(tokens1 \cap tokens2),
                              Cardinality(tokens1 \cup tokens2))))

string_similarity(s10, s20) ==
    Let2(s10, s20, LAMBDA s1, s2 :
        IF s1 = <<>> \/ s2 = <<>> THEN F0
        ELSE IF s1 = s2 THEN F1
        ELSE Let2(ToSet(split(lower(s1))), ToSet(split(lower(s2))),
                  LAMBDA tokens1, tokens2 :
                      IF tokens1 = {} \/ tokens2 = {} THEN F0
                      ELSE Let2(tokens1 \cap tokens2, tokens1 \cup tokens2,
                                LAMBDA intersection, union :
                                    IF union # {}
                                    THEN FDivInt(Cardinality(intersection),
                                                 Cardinality(union))
                                    ELSE F0)))

\* a fault for C20: the first ten digits are kept, not the last ten
normalize_phone_FirstTen(phone0) ==
    Let(phone0, LAMBDA phone :
        IF ~Truthy(phone) THEN <<>>
        ELSE Let(DigitsOf(phone.s), LAMBDA digits0 :
             Let(IF Len(digits0) = 11 /\ StartsWith(digits0, <<"1">>)
                 THEN Tail(digits0) ELSE digits0, LAMBDA digits :
                 IF Len(digits) >= 10 THEN Prefix(digits, 10) ELSE digits)))

normalize_phone(phone0) ==
    Let(phone0, LAMBDA phone :
        IF ~Truthy(phone) THEN <<>>
        ELSE Let(DigitsOf(phone.s), LAMBDA digits0 :
             Let(IF Len(digits0) = 11 /\ StartsWith(digits0, <<"1">>)
                 THEN Tail(digits0) ELSE digits0, LAMBDA digits :
                 IF Len(digits) >= 10 THEN Suffix(digits, 10) ELSE digits)))

\* [p.lower().strip() for p in parts[k:]]
RECURSIVE StripLowerFrom(_, _)
StripLowerFrom(parts, k) ==
    IF k > Len(parts) THEN <<>>
    ELSE <<strip(lower(parts[k]))>> \o StripLowerFrom(parts, k + 1)

normalize_address(provider) ==
    Let(SelectSeq(<< Get(provider, "address", EmptyStr).s,
                     Get(provider, "city", EmptyStr).s,
                     Get(provider, "state", EmptyStr).s,
                     Prefix(Get(provider, "zip_code", EmptyStr).s, 5) >>,
                  LAMBDA p : p # <<>>),
        LAMBDA parts :
            replace(replace(replace(replace(join(StripLowerFrom(parts, 1)),
                <<"s","t","r","e","e","t">>, <<"s","t">>),
                <<"a","v","e","n","u","e">>, <<"a","v","e">>),
                <<"b","o","u","l","e","v","a","r","d">>, <<"b","l","v","d">>),
                <<"d","r","i","v","e">>, <<"d","r">>))

format_address(provider) ==
    Get(provider, "address", EmptyStr).s \o <<",", " ">> \o
    Get(provider, "city", EmptyStr).s \o <<",", " ">> \o
    Get(provider, "state", EmptyStr).s \o <<" ">> \o
    Get(provider, "zip_code", EmptyStr).s

related_groups ==
    << { <<"i","n","t","e","r","n","a","l"," ","m","e","d","i","c","i","n","e">>,
         <<"f","a","m","i","l","y"," ","m","e","d","i","c","i","n","e">>,
         <<"p","r","i","m","a","r","y"," ","c","a","r","e">> },
       { <<"c","a","r","d","i","o","l","o","g","y">>,
         <<"c","a","r","d","i","o","v","a","s","c","u","l","a","r">>,
         <<"h","e","a","r","t">> },
       { <<"o","r","t","h","o","p","e","d","i","c">>,
         <<"o","r","t","h","o","p","e","d","i","c","s">>,
         <<"o","r","t","h","o","p","e","d","i","c"," ","s","u","r","g","e","r","y">> },
       { <<"p","s","y","c","h","i","a","t","r","y">>,
         <<"p","s","y","c","h","o","l","o","g","y">>,
         <<"m","e","n","t","a","l"," ","h","e","a","l","t","h">> },
       { <<"p","e","d","i","a","t","r","i","c","s">>,
         <<"p","e","d","i","a","t","r","i","c">>,
         <<"c","h","i","l","d"," ","h","e","a","l","t","h">> } >>

\* a fault for C2: the second specialty has to be a member of the group
\* itself, where the first only has to contain one
specialties_related_OneSided(spec10, spec20) ==
    Let2(spec10, spec20, LAMBDA spec1, spec2 :
        \E k \in 1..Len(related_groups) :
            /\ \E s \in related_groups[k] : Contains(s, spec1)
            /\ spec2 \in related_groups[k])

specialties_related(spec10, spec20) ==
    Let2(spec10, spec20, LAMBDA spec1, spec2 :
        \E k \in 1..Len(related_groups) :
            /\ \E s \in related_groups[k] : Contains(s, spec1)
            /\ \E s \in related_groups[k] : Contains(s, spec2))

\* f"{provider.get('first_name', '')} {provider.get('last_name', '')}"
full_name(provider) ==
    Get(provider, "first_name", EmptyStr).s \o <<" ">> \o
    Get(provider, "last_name", EmptyStr).s

\* a fault for C11: the NPI term is added without the test of line 84
npi_term_Unguarded(provider1_, provider2_) ==
    Let2(strip(Get(provider1_, "npi", EmptyStr).s),
         strip(Get(provider2_, "npi", EmptyStr).s), LAMBDA npi1, npi2 :
        FAdd(F0, FMul(IF npi1 = npi2 THEN F1 ELSE F0, FIELD_WEIGHTS.npi)))

\* the NPI term: total_score after lines 81-86
npi_term(provider1_, provider2_) ==
    Let2(strip(Get(provider1_, "npi", EmptyStr).s),
         strip(Get(provider2_, "npi", EmptyStr).s), LAMBDA npi1, npi2 :
        IF npi1 # <<>> /\ npi2 # <<>>
        THEN FAdd(F0, FMul(IF npi1 = npi2 THEN F1 ELSE F0, FIELD_WEIGHTS.npi))
        ELSE F0)

\* total_score after the name term, lines 88-92
name_term(total_score, provider1_, provider2_) ==
    Let2(strip(lower(full_name(provider1_))),
         strip(lower(full_name(provider2_))), LAMBDA name1, name2 :
        FAdd(total_score, FMul(string_similarity(name1, name2), FIELD_WEIGHTS.name)))

\* total_score after the phone term, lines 94-99
phone_term(total_score, provider1_, provider2_) ==
    Let2(normalize_phone(Get(provider1_, "phone", EmptyStr)),
         normalize_phone(Get(provider2_, "phone", EmptyStr)), LAMBDA phone1, phone2 :
        IF phone1 # <<>> /\ phone2 # <<>>
        THEN FAdd(total_score,
                  FMul(IF phone1 = phone2 THEN F1 ELSE string_similarity(phone1, phone2),
                       FIELD_WEIGHTS.phone))
        ELSE total_score)

\* total_score after the address term, lines 101-105
address_term(total_score, provider1_, provider2_) ==
    Let2(normalize_address(provider1_), normalize_address(provider2_),
         LAMBDA addr1, addr2 :
        FAdd(total_score, FMul(string_similarity(addr1, addr2), FIELD_WEIGHTS.address)))

\* total_score after the license term, lines 107-112
license_term(total_score, provider1_, provider2_) ==
    Let2(strip(upper(Get(provider1_, "license_number", EmptyStr).s)),
         strip(upper(Get(provider2_, "license_number", EmptyStr).s)), LAMBDA lic1, lic2 :
        IF lic1 # <<>> /\ lic2 # <<>>
        THEN FAdd(total_score,
                  FMul(IF lic1 = lic2 THEN F1 ELSE string_similarity(lic1, lic2),
                       FIELD_WEIGHTS.license))
        ELSE total_score)

\* total_score after the specialty term, lines 114-118
specialty_term(total_score, provider1_, provider2_) ==
    Let2(strip(lower(Get(provider1_, "specialty", EmptyStr).s)),
         strip(lower(Get(provider2_, "specialty", EmptyStr).s)), LAMBDA spec1, spec2 :
        FAdd(total_score,
             FMul(IF spec1 = spec2 THEN F1
                  ELSE IF specialties_related(spec1, spec2) THEN FHalf
                  ELSE F0,
                  FIELD_WEIGHTS.specialty)))

\* provider.get('specialty', '').lower() of lines 115-116 raises AttributeError
\* when the field holds a value that is no str; the reads before it go
\* through str(), an f-string or _normalize_phone and cannot raise
score_raises(provider1_, provider2_) ==
    \/ Get(provider1_, "specialty", EmptyStr).t # "str"
    \/ Get(provider2_, "specialty", EmptyStr).t # "str"

calculate_similarity_score(provider1_, provider2_) ==
    specialty_term(
        license_term(
            address_term(
                phone_term(
                    name_term(
                        npi_term(provider1_, provider2_),
                        provider1_, provider2_),
                    provider1_, provider2_),
                provider1_, provider2_),
            provider1_, provider2_),
        provider1_, provider2_)

\* a fault for C24: the last names are compared also when the full names match
get_matching_fields_BothNames(provider1_, provider2_) ==
    (IF Get(provider1_, "npi", PyNone) = Get(provider2_, "npi", PyNone)
     THEN <<"NPI">> ELSE <<>>)
    \o
    (IF lower(full_name(provider1_)) = lower(full_name(provider2_))
     THEN <<"Full Name">> ELSE <<>>)
    \o
    (IF lower(Get(provider1_, "last_name", EmptyStr).s)
        = lower(Get(provider2_, "last_name", EmptyStr).s)
     THEN <<"Last Name">> ELSE <<>>)
    \o
    (IF normalize_phone(Get(provider1_, "phone", EmptyStr))
        = normalize_phone(Get(provider2_, "phone", EmptyStr))
     THEN <<"Phone">> ELSE <<>>)
    \o
    (IF lower(Get(provider1_, "specialty", EmptyStr).s)
        = lower(Get(provider2_, "specialty", EmptyStr).s)
     THEN <<"Specialty">> ELSE <<>>)
    \o
    (IF upper(Get(provider1_, "state", EmptyStr).s)
        = upper(Get(provider2_, "state", EmptyStr).s)
     THEN <<"State">> ELSE <<>>)

get_matching_fields(provider1_, provider2_) ==
    (IF Get(provider1_, "npi", PyNone) = Get(provider2_, "npi", PyNone)
     THEN <<"NPI">> ELSE <<>>)
    \o
    (IF lower(full_name(provider1_)) = lower(full_name(provider2_))
     THEN <<"Full Name">>
     ELSE IF lower(Get(provider1_, "last_name", EmptyStr).s)
             = lower(Get(provider2_, "last_name", EmptyStr).s)
          THEN <<"Last Name">>
          ELSE <<>>)
    \o
    (IF normalize_phone(Get(provider1_, "phone", EmptyStr))
        = normalize_phone(Get(provider2_, "phone", EmptyStr))
     THEN <<"Phone">> ELSE <<>>)
    \o
    (IF lower(Get(provider1_, "specialty", EmptyStr).s)
        = lower(Get(provider2_, "specialty", EmptyStr).s)
     THEN <<"Specialty">> ELSE <<>>)
    \o
    (IF upper(Get(provider1_, "state", EmptyStr).s)
        = upper(Get(provider2_, "state", EmptyStr).s)
     THEN <<"State">> ELSE <<>>)

\* the .lower() of line 239, reached when the full names differ, and the
\* .lower() / .upper() of lines 245 and 248 raise AttributeError on a value
\* that is no str
matching_fields_raises(provider1_, provider2_) ==
    \/ /\ lower(full_name(provider1_)) # lower(full_name(provider2_))
       /\ \/ Get(provider1_, "last_name", EmptyStr).t # "str"
          \/ Get(provider2_, "last_name", EmptyStr).t # "str"
    \/ Get(provider1_, "specialty", EmptyStr).t # "str"
    \/ Get(provider2_, "specialty", EmptyStr).t # "str"
    \/ Get(provider1_, "state", EmptyStr).t # "str"
    \/ Get(provider2_, "state", EmptyStr).t # "str"

\* the float literals 0.95, 0.85, 0.75
Float095 == FDivInt(95, 100)
Float085 == FDivInt(85, 100)
Float075 == FDivInt(75, 100)

get_confidence_level(similarity0) ==
    Let(similarity0, LAMBDA s :
        IF FGeq(s, Float095) THEN "Very High"
        ELSE IF FGeq(s, Float085) THEN "High"
        ELSE IF FGeq(s, Float075) THEN "Medium"
        ELSE "Low")

\* a fault for C10: the action's thresholds are 0.90 and 0.80
get_recommended_action_Shifted(similarity0) ==
    Let(similarity0, LAMBDA s :
        IF FGeq(s, FDivInt(90, 100)) THEN "Auto-merge recommended"
        ELSE IF FGeq(s, FDivInt(80, 100)) THEN "Manual review and merge"
        ELSE IF FGeq(s, Float075) THEN "Review for potential merge"
        ELSE "Monitor - likely different providers")

get_recommended_action(similarity0) ==
    Let(similarity0, LAMBDA s :
        IF FGeq(s, Float095) THEN "Auto-merge recommended"
        ELSE IF FGeq(s, Float085) THEN "Manual review and merge"
        ELSE IF FGeq(s, Float075) THEN "Review for potential merge"
        ELSE "Monitor - likely different providers")

\* similarity_score values are held in tenths of a percent: 85 is 850
Tenths(percent) == 10 * percent

generate_merge_recommendation(duplicate) ==
    IF duplicate.similarity_score >= Tenths(95)
    THEN "These records appear to be exact duplicates. Auto-merge is recommended."
    ELSE IF duplicate.similarity_score >= Tenths(85)
    THEN "High similarity detected. Manual review recommended before merging."
    ELSE "Moderate similarity. Careful review required to confirm duplicate status."

determine_primary_record(duplicate) == duplicate.provider_1.id

\* a fault for C22: phones are compared as _normalize_phone leaves them
identify_merge_fields_Normalized(duplicate) ==
    (IF normalize_phone(duplicate.provider_1.phone)
           # normalize_phone(duplicate.provider_2.phone)
     THEN << [field |-> "phone",
              value_1 |-> duplicate.provider_1.phone,
              value_2 |-> duplicate.provider_2.phone,
              recommendation |-> "Keep most recently verified"] >>
     ELSE <<>>)
    \o
    (IF duplicate.provider_1.address # duplicate.provider_2.address
     THEN << [field |-> "address",
              value_1 |-> duplicate.provider_1.address,
              value_2 |-> duplicate.provider_2.address,
              recommendation |-> "Keep most complete address"] >>
     ELSE <<>>)

identify_merge_fields(duplicate) ==
    (IF duplicate.provider_1.phone # duplicate.provider_2.phone
     THEN << [field |-> "phone",
              value_1 |-> duplicate.provider_1.phone,
              value_2 |-> duplicate.provider_2.phone,
              recommendation |-> "Keep most recently verified"] >>
     ELSE <<>>)
    \o
    (IF duplicate.provider_1.address # duplicate.provider_2.address
     THEN << [field |-> "address",
              value_1 |-> duplicate.provider_1.address,
              value_2 |-> duplicate.provider_2.address,
              recommendation |-> "Keep most complete address"] >>
     ELSE <<>>)

(***************************************************************************)
(* The pairwise duplicate finder.                                          *)
(***************************************************************************)
DigitChars == <<"0","1","2","3","4","5","6","7","8","9">>

RECURSIVE DecimalDigits(_)
DecimalDigits(n) == IF n < 10 THEN <<DigitChars[n + 1]>>
                    ELSE DecimalDigits(n \div 10) \o <<DigitChars[(n % 10) + 1]>>
RECURSIVE ZeroPad(_, _)
ZeroPad(s0, width) ==
    Let(s0, LAMBDA s : IF Len(s) >= width THEN s ELSE ZeroPad(<<"0">> \o s, width))
\* f"{n:04d}"
Format04d(n) == ZeroPad(DecimalDigits(n), 4)

\* a fault for C23: the two positions change places in the pair_id
pair_id_of_Swapped(i, j) ==
    <<"D","U","P","-">> \o Format04d(j) \o <<"-">> \o Format04d(i)

\* f"DUP-{i:04d}-{j:04d}"
pair_id_of(i, j) == <<"D","U","P","-">> \o Format04d(i) \o <<"-">> \o Format04d(j)

\* the projection of a provider kept in a duplicate record, lines 47-54
projection(provider) ==
    [id        |-> Get(provider, "provider_id", EmptyStr),
     name      |-> full_name(provider),
     npi       |-> Get(provider, "npi", EmptyStr),
     specialty |-> Get(provider, "specialty", EmptyStr),
     phone     |-> Get(provider, "phone", EmptyStr),
     address   |-> format_address(provider)]

\* the duplicate_record of lines 45-68 (detected_at, the wall clock, left out)
duplicate_record(i, j, provider1_, provider2_, similarity0) ==
    Let(similarity0, LAMBDA s :
        [pair_id            |-> pair_id_of(i, j),
         provider_1         |-> projection(provider1_),
         provider_2         |-> projection(provider2_),
         similarity_score   |-> RoundPercent(s),
         matching_fields    |-> get_matching_fields(provider1_, provider2_),
         confidence         |-> get_confidence_level(s),
         recommended_action |-> get_recommended_action(s)])

\* the characters of the model in code-point order
CodePointOrder ==
    <<" ","(",")","+",",","-",".","0","1","2","3","4","5","6","7","8","9">> \o
    UpperLetters \o LowerLetters
Ord(c) == CHOOSE k \in 1..Len(CodePointOrder) : CodePointOrder[k] = c

\* s1[k:] < s2[k:] for str, given s1[:k-1] = s2[:k-1]
RECURSIVE StrLessFrom(_, _, _)
StrLessFrom(s1, s2, k) ==
    IF k > Len(s2) THEN FALSE
    ELSE IF k > Len(s1) THEN TRUE
    ELSE IF s1[k] # s2[k] THEN Ord(s1[k]) < Ord(s2[k])
    ELSE StrLessFrom(s1, s2, k + 1)

\* n1 < n2 for two ints >= 0 given by their decimal digits
IntLess(n1, n2) ==
    \/ Len(n1) < Len(n2)
    \/ Len(n1) = Len(n2) /\ StrLessFrom(n1, n2, 1)

\* sorted([id1, id2]) raises TypeError when it has to compare a str with an
\* int or with None, or None with None
pair_key_raises(id1, id2) == id1.t # id2.t \/ id1.t = "none"

\* a fault for C19: the key is made of provider1's id alone
pair_key_of_FirstId(id1, id2) == <<id1, id1>>

\* tuple(sorted([id1, id2])) for two ids of one type
pair_key_of(id1, id2) ==
    IF (IF id1.t = "int" THEN IntLess(id2.s, id1.s) ELSE StrLessFrom(id2.s, id1.s, 1))
    THEN <<id2, id1>> ELSE <<id1, id2>>

\* the local state of find_potential_duplicates before its loops, lines 32-33;
\* `evaluated` lists the pair keys calculate_similarity_score was called for
\* and `raised` says that an exception ended the call
NewLoop == [duplicates |-> <<>>, processed_pairs |-> {}, evaluated |-> <<>>,
            raised |-> FALSE]

\* lines 37-68 for one pair of records, apart from the guard: the key, the
\* score, whether it reaches the threshold and the record made if it does,
\* and whether building any of them raises
pair_step(i, j, provider1_, provider2_) ==
    IF pair_key_raises(Get(provider1_, "provider_id", EmptyStr),
                       Get(provider2_, "provider_id", EmptyStr))
    THEN [key_raises |-> TRUE]
    ELSE Let(pair_key_of(Get(provider1_, "provider_id", EmptyStr),
                         Get(provider2_, "provider_id", EmptyStr)),
             LAMBDA pair_key :
         IF score_raises(provider1_, provider2_)
         THEN [key_raises |-> FALSE, pair_key |-> pair_key, raises |-> TRUE]
         ELSE Let(calculate_similarity_score(provider1_, provider2_), LAMBDA s :
              IF ~FGeq(s, SIMILARITY_THRESHOLD)
              THEN [key_raises |-> FALSE, pair_key |-> pair_key,
                    raises |-> FALSE, flagged |-> FALSE]
              ELSE IF matching_fields_raises(provider1_, provider2_)
              THEN [key_raises |-> FALSE, pair_key |-> pair_key, raises |-> TRUE]
              ELSE [key_raises |-> FALSE, pair_key |-> pair_key,
                    raises |-> FALSE, flagged |-> TRUE,
                    duplicate_record |->
                        duplicate_record(i, j, provider1_, provider2_, s)]))

\* pair_step for every i < j of the list, the one of (i, j) at i * n + j + 1
pair_steps(list, n) ==
    SubSeq([k \in 1..(n * n) |->
               IF (k - 1) \div n < (k - 1) % n
               THEN pair_step((k - 1) \div n, (k - 1) % n,
                              list[((k - 1) \div n) + 1], list[((k - 1) % n) + 1])
               ELSE [key_raises |-> FALSE]],
           1, n * n)

\* a fault for C27: the inner loop without the guard of lines 39-40
RECURSIVE ScanRow_Unguarded(_, _, _, _, _)
ScanRow_Unguarded(steps, n, i, j, loop0) ==
    Let2(loop0, IF j >= n THEN [key_raises |-> FALSE] ELSE steps[i * n + j + 1],
         LAMBDA loop, step :
        IF j >= n THEN loop
        ELSE IF step.key_raises THEN [loop EXCEPT !.raised = TRUE]
        ELSE IF step.raises
        THEN [loop EXCEPT !.evaluated = Append(@, step.pair_key), !.raised = TRUE]
        ELSE IF step.flagged
        THEN ScanRow_Unguarded(steps, n, i, j + 1,
                 [duplicates |-> Append(loop.duplicates, step.duplicate_record),
                  processed_pairs |-> loop.processed_pairs \cup {step.pair_key},
                  evaluated |-> Append(loop.evaluated, step.pair_key),
                  raised |-> FALSE])
        ELSE ScanRow_Unguarded(steps, n, i, j + 1,
                 [loop EXCEPT !.evaluated = Append(@, step.pair_key)]))

\* the inner loop of lines 36-70 for provider1 = list[i], from provider2 =
\* list[j] on, n records in all; an exception ends it
RECURSIVE ScanRow(_, _, _, _, _)
ScanRow(steps, n, i, j, loop0) ==
    Let2(loop0, IF j >= n THEN [key_raises |-> FALSE] ELSE steps[i * n + j + 1],
         LAMBDA loop, step :
        IF j >= n THEN loop
        ELSE IF step.key_raises THEN [loop EXCEPT !.raised = TRUE]
        ELSE IF step.pair_key \in loop.processed_pairs
        THEN ScanRow(steps, n, i, j + 1, loop)
        ELSE IF step.raises
        THEN [loop EXCEPT !.evaluated = Append(@, step.pair_key), !.raised = TRUE]
        ELSE IF step.flagged
        THEN ScanRow(steps, n, i, j + 1,
                 [duplicates |-> Append(loop.duplicates, step.duplicate_record),
                  processed_pairs |-> loop.processed_pairs \cup {step.pair_key},
                  evaluated |-> Append(loop.evaluated, step.pair_key),
                  raised |-> FALSE])
        ELSE ScanRow(steps, n, i, j + 1,
                 [loop EXCEPT !.evaluated = Append(@, step.pair_key)]))

\* the outer loop of lines 35-70 from provider1 = list[i] on
RECURSIVE ScanPairs(_, _, _, _)
ScanPairs(steps, n, i, loop0) ==
    Let(loop0, LAMBDA loop :
        IF i >= n \/ loop.raised THEN loop
        ELSE ScanPairs(steps, n, i + 1, ScanRow(steps, n, i, i + 1, loop)))

\* a fault for C5: the pairs are returned in the order the loop found them
Unsorted(list, n) == SubSeq(list, 1, n)

\* a fault for C29: among equal scores the later element comes first
RankByScore_TiesReversed(list, n, k) ==
    Cardinality({ i \in 1..n :
        \/ list[i].similarity_score > list[k].similarity_score
        \/ list[i].similarity_score = list[k].similarity_score /\ i >= k })

\* where list[k] stands after list[:n].sort(key=similarity_score,
\* reverse=True): behind the elements with a higher score and, the sort being
\* stable, behind the earlier ones with the same score
RankByScore(list, n, k) ==
    Cardinality({ i \in 1..n :
        \/ list[i].similarity_score > list[k].similarity_score
        \/ list[i].similarity_score = list[k].similarity_score /\ i <= k })

\* list[:n] after line 73
SortByScoreDesc(list, n) ==
    SubSeq([p \in 1..n |-> list[CHOOSE k \in 1..n : RankByScore(list, n, k) = p]],
           1, n)

\* one call of find_potential_duplicates: whether it raised, the list it
\* returned if it did not, and the pair keys it scored
find_outcome(providers0) ==
    Let(providers0, LAMBDA list :
        Let(ScanPairs(pair_steps(list, Len(list)), Len(list), 0, NewLoop),
            LAMBDA found :
            [raised     |-> found.raised,
             evaluated  |-> found.evaluated,
             duplicates |-> IF found.raised THEN <<>>
                            ELSE SortByScoreDesc(found.duplicates,
                                                 Len(found.duplicates))]))

find_potential_duplicates(providers0) == find_outcome(providers0).duplicates

\* a fault for C9: auto_merge_eligible tests the filter's threshold, 85
merge_candidate_AlwaysEligible(dup) ==
    [pair_id              |-> dup.pair_id,
     providers            |-> <<dup.provider_1, dup.provider_2>>,
     similarity           |-> dup.similarity_score,
     merge_recommendation |-> generate_merge_recommendation(dup),
     primary_record       |-> determine_primary_record(dup),
     fields_to_merge      |-> identify_merge_fields(dup),
     auto_merge_eligible  |-> dup.similarity_score >= Tenths(85)]

(***************************************************************************)
(* The merge candidate recommender.                                        *)
(***************************************************************************)
\* the merge_candidate of lines 128-136
merge_candidate_of(dup) ==
    [pair_id              |-> dup.pair_id,
     providers            |-> <<dup.provider_1, dup.provider_2>>,
     similarity           |-> dup.similarity_score,
     merge_recommendation |-> generate_merge_recommendation(dup),
     primary_record       |-> determine_primary_record(dup),
     fields_to_merge      |-> identify_merge_fields(dup),
     auto_merge_eligible  |-> dup.similarity_score >= Tenths(95)]

\* a fault for C7: the loop keeps every pair from 75 up
MergeFrom_From75(list, k) ==
    Let(SelectSeq(SubSeq(list, k, Len(list)),
                  LAMBDA dup : dup.similarity_score >= Tenths(75)),
        LAMBDA kept :
            SubSeq([n \in 1..Len(kept) |-> merge_candidate_of(kept[n])], 1, Len(kept)))

\* the loop of lines 126-137 over list[k:]: a candidate, in order, for every
\* element that passes the test of line 127
MergeFrom(list, k) ==
    Let(SelectSeq(SubSeq(list, k, Len(list)),
                  LAMBDA dup : dup.similarity_score >= Tenths(85)),
        LAMBDA kept :
            SubSeq([n \in 1..Len(kept) |-> merge_candidate_of(kept[n])], 1, Len(kept)))

\* a fault for C8: each candidate is put in front of the ones before it
suggest_merge_candidates_Prepending(duplicates0) ==
    Let(duplicates0, LAMBDA list : Reverse(MergeFrom(list, 1)))

suggest_merge_candidates(duplicates0) ==
    Let(duplicates0, LAMBDA list : MergeFrom(list, 1))


(***************************************************************************)
(* The deduplication report builder.                                       *)
(***************************************************************************)
\* the slice limits of lines 161 and 162
DuplicatesShown == 50
MergeCandidatesShown == 20

\* sum(1 for x in list if test(x))
CountWhere(list, test(_)) == Cardinality({ k \in 1..Len(list) : test(list[k]) })

\* dict(by_confidence) of lines 147-149 and 160: a key for every label that
\* occurs, with the number of pairs that carry it
by_confidence_of(duplicates0) ==
    [c \in { duplicates0[k].confidence : k \in 1..Len(duplicates0) } |->
        CountWhere(duplicates0, LAMBDA dup : dup.confidence = c)]

\* a fault for C13: the two general recommendations are given without the
\* test of line 327
generate_report_recommendations_Always(duplicates0) ==
    << <<"Implement duplicate prevention at data entry point">>,
       <<"Consider standardizing data formats to reduce false duplicates">> >>

\* a fault for C25: every flagged pair counts as high-confidence
generate_report_recommendations_From75(duplicates0) ==
    Let2(CountWhere(duplicates0, LAMBDA d : d.similarity_score >= Tenths(75)),
         CountWhere(duplicates0, LAMBDA d : d.similarity_score >= Tenths(95)),
         LAMBDA high_confidence, auto_merge :
        (IF high_confidence > 0
         THEN << <<"Review and merge ", DecimalDigits(high_confidence),
                   " high-confidence duplicate pairs">> >>
         ELSE <<>>)
        \o
        (IF auto_merge > 0
         THEN << <<"", DecimalDigits(auto_merge),
                   " pairs are eligible for automatic merging">> >>
         ELSE <<>>)
        \o
        (IF Len(duplicates0) > 0
         THEN << <<"Implement duplicate prevention at data entry point">>,
                 <<"Consider standardizing data formats to reduce false duplicates">> >>
         ELSE <<>>))

\* an f-string with one number in it: the text before, the decimal digits,
\* the text after
generate_report_recommendations(duplicates0) ==
    Let2(CountWhere(duplicates0, LAMBDA d : d.similarity_score >= Tenths(85)),
         CountWhere(duplicates0, LAMBDA d : d.similarity_score >= Tenths(95)),
         LAMBDA high_confidence, auto_merge :
        (IF high_confidence > 0
         THEN << <<"Review and merge ", DecimalDigits(high_confidence),
                   " high-confidence duplicate pairs">> >>
         ELSE <<>>)
        \o
        (IF auto_merge > 0
         THEN << <<"", DecimalDigits(auto_merge),
                   " pairs are eligible for automatic merging">> >>
         ELSE <<>>)
        \o
        (IF Len(duplicates0) > 0
         THEN << <<"Implement duplicate prevention at data entry point">>,
                 <<"Consider standardizing data formats to reduce false duplicates">> >>
         ELSE <<>>))

\* a fault for C17: the two lists are put in the report whole
report_of_Unsliced(providers0, duplicates0) ==
    Let(suggest_merge_candidates(duplicates0), LAMBDA candidates :
        [report_title |-> "Provider Duplicate Detection Report",
         summary |->
            [total_providers_analyzed   |-> Len(providers0),
             potential_duplicates_found |-> Len(duplicates0),
             merge_candidates           |-> Len(candidates),
             auto_merge_eligible        |->
                 CountWhere(candidates, LAMBDA m : m.auto_merge_eligible)],
         by_confidence    |-> by_confidence_of(duplicates0),
         duplicates       |-> duplicates0,
         merge_candidates |-> candidates,
         recommendations  |-> generate_report_recommendations(duplicates0)])

\* the dict of lines 151-164, without the generated_at timestamp
report_of(providers0, duplicates0) ==
    Let(suggest_merge_candidates(duplicates0), LAMBDA candidates :
        [report_title |-> "Provider Duplicate Detection Report",
         summary |->
            [total_providers_analyzed   |-> Len(providers0),
             potential_duplicates_found |-> Len(duplicates0),
             merge_candidates           |-> Len(candidates),
             auto_merge_eligible        |->
                 CountWhere(candidates, LAMBDA m : m.auto_merge_eligible)],
         by_confidence    |-> by_confidence_of(duplicates0),
         duplicates       |-> Prefix(duplicates0, DuplicatesShown),
         merge_candidates |-> Prefix(candidates, MergeCandidatesShown),
         recommendations  |-> generate_report_recommendations(duplicates0)])

\* no report: the call has not been made, or it raised
NoReport == [report_title |-> "none"]

\* one call of generate_deduplication_report: whether it raised (line 143 is
\* the one place that can) and the report it returned if it did not
report_outcome(providers0) ==
    Let(find_outcome(providers0), LAMBDA found :
        [raised |-> found.raised,
         report |-> IF found.raised THEN NoReport
                    ELSE report_of(providers0, found.duplicates)])

generate_deduplication_report(providers0) == report_outcome(providers0).report
(***************************************************************************)
(* Provider records the calls are driven with.  A record is a dict; a      *)
(* field that is Absent is left out of it.                                 *)
(***************************************************************************)
Absent == [t |-> "absent", s |-> <<>>]

Fields == {"provider_id", "npi", "first_name", "last_name", "phone", "address",
           "city", "state", "zip_code", "license_number", "specialty"}

Provider(id, npi, first, last, phone, address, city, state, zip, license, specialty) ==
    LET all == [provider_id |-> id, npi |-> npi, first_name |-> first,
                last_name |-> last, phone |-> phone, address |-> address,
                city |-> city, state |-> state, zip_code |-> zip,
                license_number |-> license, specialty |-> specialty]
    IN  [f \in {g \in Fields : all[g] # Absent} |-> all[f]]

IdA == PyStr(<<"A">>)
IdB == PyStr(<<"B">>)
IdC == PyStr(<<"C">>)
Npi12 == PyStr(<<"1","2">>)
Npi13 == PyStr(<<"1","3">>)
NpiBlank == PyStr(<<" ">>)
FirstAl == PyStr(<<"A","l">>)
LastNg == PyStr(<<"N","g">>)
LastLi == PyStr(<<"L","i">>)
Phone11 == PyStr(<<"+","1"," ","(","5","5","5",")"," ","1","2","3","-","4","5","6","7">>)
Phone10 == PyStr(<<"5","5","5",".","1","2","3",".","4","5","6","7">>)
PhoneOther == PyStr(<<"5","5","5","-","1","2","3","-","4","5","6","8">>)
PhoneNoDigits == PyStr(<<"n","-","a">>)
AddrMainStreet == PyStr(<<"1"," ","M","a","i","n"," ","S","t","r","e","e","t">>)
AddrMainSt == PyStr(<<"1"," ","m","a","i","n"," ","s","t">>)
AddrOak == PyStr(<<"2"," ","O","a","k"," ","S","t">>)
CityX == PyStr(<<"X">>)
StateNY == PyStr(<<"N","Y">>)
Zip5 == PyStr(<<"1","0","0","0","1">>)
Zip9 == PyStr(<<"1","0","0","0","1","-","2","2">>)
LicL1 == PyStr(<<"L","1">>)
LicL1Lower == PyStr(<<"l","1"," ">>)
LicL2 == PyStr(<<"L","2">>)
SpecCardiology == PyStr(<<"C","a","r","d","i","o","l","o","g","y">>)
SpecHeart == PyStr(<<"H","e","a","r","t"," ","S","u","r","g","e","r","y">>)
SpecSkin == PyStr(<<"S","k","i","n">>)


\* a record of another person in another place: no NPI, 555-987-6543,
\* 9 Elm Rd, Y, CA 90210
ElsewhereRecord(first_name) ==
    Provider(IdB, EmptyStr, first_name, LastLi,
             PyStr(<<"5","5","5","-","9","8","7","-","6","5","4","3">>),
             PyStr(<<"9"," ","E","l","m"," ","R","d">>), PyStr(<<"Y">>),
             PyStr(<<"C","A">>), PyStr(<<"9","0","2","1","0">>), LicL2,
             SpecCardiology)

\* the records the similarity scorer is driven with
ScorePool ==
    { Provider(IdA, npi, FirstAl, last, phone, address, CityX, StateNY, Zip5, lic, spec) :
        npi \in {Npi12, Npi13}, last \in {LastNg, LastLi},
        phone \in {Phone11, PhoneOther},
        address \in {AddrMainStreet, AddrOak},
        lic \in {LicL1, LicL2},
        spec \in {SpecCardiology, SpecHeart, SpecSkin} }
    \cup
    { Provider(IdA, Npi12, FirstAl, LastNg, Phone10, AddrMainSt, CityX, StateNY,
               Zip9, LicL1Lower, SpecCardiology),
      Provider(IdA, NpiBlank, FirstAl, LastNg, PhoneNoDigits, AddrOak, CityX, StateNY,
               Zip9, LicL1, SpecSkin),
      Provider(IdA, Npi12, FirstAl, Absent, Phone10, AddrMainSt, Absent, Absent,
               Absent, LicL1, Absent),
      Provider(IdA, Absent, FirstAl, Absent, Absent, AddrMainSt, Absent, Absent,
               Absent, Absent, Absent),
      Provider(IdA, Absent, Absent, Absent, Absent, Absent, Absent, Absent,
               Absent, Absent, Absent),
      \* no NPI, and nothing but the specialty in common with the next one
      Provider(IdA, EmptyStr, FirstAl, LastNg, Phone11, AddrMainStreet, CityX, StateNY,
               Zip5, LicL1, SpecCardiology),
      ElsewhereRecord(PyStr(<<"B","o">>)),
      \* the same with the first name of the first one
      ElsewhereRecord(FirstAl),
      \* a specialty that is None
      Provider(IdB, Npi12, FirstAl, LastNg, Phone11, AddrMainStreet, CityX, StateNY,
               Zip5, LicL1, PyNone),
      \* an address and a city that are one blank each, and a state too
      Provider(IdA, Npi12, FirstAl, LastNg, Phone11, PyStr(<<" ">>), PyStr(<<" ">>),
               Absent, Absent, LicL1, SpecCardiology),
      Provider(IdA, Npi12, FirstAl, LastNg, Phone11, PyStr(<<" ">>), PyStr(<<" ">>),
               PyStr(<<" ">>), Absent, LicL1, SpecCardiology) }

\* the records the duplicate finder is driven with: repeated, distinct and
\* absent provider ids, near-identical and clearly different records
FullRecord(id) ==
    Provider(id, Npi12, FirstAl, LastNg, Phone11, AddrMainStreet, CityX, StateNY,
             Zip5, LicL1, SpecCardiology)
RespelledRecord(id) ==
    Provider(id, Npi12, FirstAl, LastNg, Phone10, AddrMainSt, CityX, StateNY,
             Zip9, LicL1Lower, SpecHeart)
OtherLicenseRecord(id) ==
    Provider(id, Npi12, FirstAl, LastNg, Phone11, AddrMainStreet, CityX, StateNY,
             Zip5, LicL2, SpecSkin)
MovedRecord(id) ==
    Provider(id, Npi12, FirstAl, LastNg, PhoneOther, AddrOak, CityX, StateNY,
             Zip5, LicL1, SpecCardiology)
OtherNpiRecord(id) ==
    Provider(id, Npi13, FirstAl, LastNg, Phone11, AddrMainStreet, CityX, StateNY,
             Zip5, LicL1, SpecCardiology)
NoDigitPhoneRecord(id) ==
    Provider(id, Npi12, FirstAl, LastNg, PhoneNoDigits, AddrMainStreet, CityX, StateNY,
             Zip5, LicL1, SpecCardiology)

BlankNpiRecord(id) ==
    Provider(id, NpiBlank, FirstAl, LastNg, Phone11, AddrMainStreet, CityX, StateNY,
             Zip5, LicL1, SpecCardiology)

ListPool ==
    { FullRecord(IdA), FullRecord(Absent), RespelledRecord(IdC),
      OtherLicenseRecord(IdB), MovedRecord(IdC), OtherNpiRecord(IdB),
      NoDigitPhoneRecord(Absent), BlankNpiRecord(IdB) }

MaxProviders == 3

ProviderLists == UNION { [1..n -> ListPool] : n \in 0..MaxProviders }

\* records with values that are no str: a None specialty, a None state, an
\* int provider_id
NullSpecialtyRecord(id) ==
    Provider(id, Npi12, FirstAl, LastNg, Phone11, AddrMainStreet, CityX, StateNY,
             Zip5, LicL1, PyNone)
NullStateRecord(id) ==
    Provider(id, Npi12, FirstAl, LastNg, Phone11, AddrMainStreet, CityX, PyNone,
             Zip5, LicL1, SpecCardiology)

\* the records the report builder is driven with
ReportPool ==
    { FullRecord(IdA), RespelledRecord(IdC), OtherLicenseRecord(IdB), MovedRecord(IdC),
      NullSpecialtyRecord(IdB), NullStateRecord(IdC), FullRecord(PyInt(<<"7">>)),
      \* the NPI followed by a blank, and another first name
      [FullRecord(IdB) EXCEPT !.npi = PyStr(<<"1","2"," ">>)],
      [FullRecord(IdC) EXCEPT !.first_name = PyStr(<<"B","o">>)],
      \* two records with three of four name tokens, seven of eleven address
      \* tokens and two of three license tokens in common
      Provider(IdA, Npi12, PyStr(<<"A","l"," ","J">>), LastNg, Phone11,
               PyStr(<<"1"," ","N"," ","M","a","i","n"," ","S","t"," ","A","p","t"," ","2">>),
               CityX, StateNY, Zip5, PyStr(<<"L","1"," ","N","Y">>), SpecCardiology),
      Provider(IdB, Npi12, PyStr(<<"A","l"," ","J">>), PyStr(<<"N","g"," ","L","i">>), Phone11,
               PyStr(<<"1"," ","N"," ","M","a","i","n"," ","S","t"," ","F","l"," ","3">>),
               CityX, StateNY, Zip5, PyStr(<<"L","1"," ","N","Y"," ","X">>), SpecCardiology) }

MaxReportProviders == 2

\* a list long enough for the report's slices to cut: ManyProviders records
\* with distinct ids P1, P2, ..., all but the last three of them equal
ManyProviders == 11

RECURSIVE ManyRecordsUpTo(_)
ManyRecordsUpTo(n) ==
    IF n = 0 THEN <<>>
    ELSE Append(ManyRecordsUpTo(n - 1),
                IF n + 3 > ManyProviders
                THEN OtherLicenseRecord(PyStr(<<"P">> \o DecimalDigits(n)))
                ELSE FullRecord(PyStr(<<"P">> \o DecimalDigits(n))))

ReportLists ==
    UNION { [1..n -> ReportPool] : n \in 0..MaxReportProviders }
    \cup { ManyRecordsUpTo(ManyProviders) }

(***************************************************************************)
(* State.                                                                  *)
(***************************************************************************)
VARIABLES
    agent,             \* the DuplicateDetectionAgent instance's fields
    providers,         \* the argument of find_potential_duplicates
    duplicates,        \* the list find_potential_duplicates returned
    evaluated,         \* the pair keys that call scored, in order
    merge_input,       \* the argument of suggest_merge_candidates
    merge_candidates,  \* the list suggest_merge_candidates returned
    report,            \* the dict generate_deduplication_report returned
    provider1,         \* the arguments of calculate_similarity_score
    provider2,
    similarity,        \* the float calculate_similarity_score returned
    phone_arg,         \* the argument of _normalize_phone
    normalized,        \* the str _normalize_phone returned
    orchestrator,      \* the ProviderValidationOrchestrator instance's fields
    pc                 \* how far the caller has come

vars == <<agent, providers, duplicates, evaluated, merge_input, merge_candidates,
          report, provider1, provider2, similarity, phone_arg, normalized,
          orchestrator, pc>>

\* DuplicateDetectionAgent.__init__
NewAgent == [duplicate_pairs |-> <<>>, merge_candidates |-> <<>>]

EmptyDict == [f \in {} |-> Absent]

\* a caller holding an agent and a provider list
Init ==
    /\ agent = NewAgent
    /\ providers \in ProviderLists
    /\ duplicates = <<>>
    /\ evaluated = <<>>
    /\ merge_input = <<>>
    /\ merge_candidates = <<>>
    /\ report = NoReport
    /\ provider1 = EmptyDict
    /\ provider2 = EmptyDict
    /\ similarity = F0
    /\ phone_arg = PyNone
    /\ normalized = <<>>
    /\ orchestrator = "none"
    /\ pc = "ready"

\* a fault for C18: the call keeps its result in self.duplicate_pairs
FindPotentialDuplicates_Caching ==
    /\ pc = "ready"
    /\ \E found \in {find_outcome(providers)} :
          /\ duplicates' = found.duplicates
          /\ evaluated' = found.evaluated
          /\ agent' = [agent EXCEPT !.duplicate_pairs = found.duplicates]
          /\ pc' = IF found.raised THEN "raised" ELSE "found"
    /\ UNCHANGED <<orchestrator, providers, merge_input, merge_candidates, report,
                   provider1, provider2, similarity, phone_arg, normalized>>

\* the call returns its list, or an exception leaves the caller without one
FindPotentialDuplicates ==
    /\ pc = "ready"
    /\ \E found \in {find_outcome(providers)} :
          /\ duplicates' = found.duplicates
          /\ evaluated' = found.evaluated
          /\ pc' = IF found.raised THEN "raised" ELSE "found"
    /\ UNCHANGED <<orchestrator, agent, providers, merge_input, merge_candidates, report,
                   provider1, provider2, similarity, phone_arg, normalized>>

\* the caller passes the list it got, or the same pairs in another order
SuggestMergeCandidates ==
    /\ pc = "found"
    /\ \E input \in {duplicates, Reverse(duplicates)} :
          /\ merge_input' = input
          /\ merge_candidates' = suggest_merge_candidates(input)
    /\ pc' = "merged"
    /\ UNCHANGED <<orchestrator, agent, providers, duplicates, evaluated, report,
                   provider1, provider2, similarity, phone_arg, normalized>>

Next == FindPotentialDuplicates \/ SuggestMergeCandidates

Spec == Init /\ [][Next]_vars

\* a caller that also asks for the report, before or after the other calls
InitReport ==
    /\ agent = NewAgent
    /\ providers \in ReportLists
    /\ duplicates = <<>>
    /\ evaluated = <<>>
    /\ merge_input = <<>>
    /\ merge_candidates = <<>>
    /\ report = NoReport
    /\ provider1 = EmptyDict
    /\ provider2 = EmptyDict
    /\ similarity = F0
    /\ phone_arg = PyNone
    /\ normalized = <<>>
    /\ orchestrator = "none"
    /\ pc = "ready"

GenerateDeduplicationReport ==
    /\ pc \in {"ready", "found", "merged"}
    /\ report = NoReport
    /\ \E made \in {report_outcome(providers)} :
          /\ report' = made.report
          /\ pc' = IF made.raised THEN "raised" ELSE pc
    /\ UNCHANGED <<orchestrator, agent, providers, duplicates, evaluated, merge_input,
                   merge_candidates, provider1, provider2, similarity,
                   phone_arg, normalized>>

NextReport ==
    FindPotentialDuplicates \/ SuggestMergeCandidates \/ GenerateDeduplicationReport

SpecReport == InitReport /\ [][NextReport]_vars

\* a caller of the similarity scorer alone
InitScore ==
    /\ agent = NewAgent
    /\ providers = <<>>
    /\ duplicates = <<>>
    /\ evaluated = <<>>
    /\ merge_input = <<>>
    /\ merge_candidates = <<>>
    /\ report = NoReport
    /\ provider1 \in ScorePool
    /\ provider2 \in ScorePool
    /\ similarity = F0
    /\ phone_arg = PyNone
    /\ normalized = <<>>
    /\ orchestrator = "none"
    /\ pc = "ready"

\* the call returns a float, or an exception leaves the caller without one
CalculateSimilarityScore ==
    /\ pc = "ready"
    /\ IF score_raises(provider1, provider2)
       THEN similarity' = similarity /\ pc' = "raised"
       ELSE /\ similarity' = calculate_similarity_score(provider1, provider2)
            /\ pc' = "scored"
    /\ UNCHANGED <<orchestrator, agent, providers, duplicates, evaluated, merge_input,
                   merge_candidates, report, provider1, provider2,
                   phone_arg, normalized>>

NextScore == CalculateSimilarityScore

SpecScore == InitScore /\ [][NextScore]_vars

\* the values a phone field holds: strs, None and an int
PhonePool ==
    { PyStr(lead \o body \o trail) :
         lead \in { <<>>, <<"1">>, <<"+","1"," ">>, <<"1","-">>, <<"2">> },
         body \in { <<>>,
                    <<"5","5","5","1","2","3","4">>,
                    <<"5","5","5","-","1","2","3","4">>,
                    <<"5","5","5","1","2","3","4","5","6","7">>,
                    <<"5","5","5","-","1","2","3","-","4","5","6","7">>,
                    <<"(","5","5","5",")"," ","1","2","3","-","4","5","6","7">>,
                    <<"1","5","5","5","1","2","3","4","5","6">> },
         trail \in { <<>>, <<" ">>, <<"9">>, <<" ","x","8","9">> } }
    \cup { PyNone, PyInt(<<"5","5","5","1","2","3","4","5","6","7">>) }

\* a caller of the phone normalizer alone
InitPhone ==
    /\ agent = NewAgent
    /\ providers = <<>>
    /\ duplicates = <<>>
    /\ evaluated = <<>>
    /\ merge_input = <<>>
    /\ merge_candidates = <<>>
    /\ report = NoReport
    /\ provider1 = EmptyDict
    /\ provider2 = EmptyDict
    /\ similarity = F0
    /\ phone_arg \in PhonePool
    /\ normalized = <<>>
    /\ orchestrator = "none"
    /\ pc = "ready"

\* self._normalize_phone(phone)
NormalizePhone ==
    /\ pc = "ready"
    /\ normalized' = normalize_phone(phone_arg)
    /\ pc' = "normalized"
    /\ UNCHANGED <<orchestrator, agent, providers, duplicates, evaluated, merge_input,
                   merge_candidates, report, provider1, provider2, similarity,
                   phone_arg>>

\* the caller normalizes the str it got back
NormalizeAgain ==
    /\ pc = "normalized"
    /\ phone_arg' = PyStr(normalized)
    /\ normalized' = normalize_phone(PyStr(normalized))
    /\ pc' = "renormalized"
    /\ UNCHANGED <<orchestrator, agent, providers, duplicates, evaluated, merge_input,
                   merge_candidates, report, provider1, provider2, similarity>>

NextPhone == NormalizePhone \/ NormalizeAgain

SpecPhone == InitPhone /\ [][NextPhone]_vars

(***************************************************************************)
(* ProviderValidationOrchestrator, src/orchestrator.py.                    *)
(***************************************************************************)
\* the most providers one batch holds
MaxBatch == 2

\* providers_processed is let grow this far
MaxProcessed == 6

\* self.validate_batch(providers, batch_size), lines 81-119.  A provider of
\* the batch is given by what validate_single_provider does with it:
\* "validated" and "review" return a result whose requires_manual_review is
\* False and True, "error" raises for a provider that has a provider_id, so
\* that the handler of lines 111-113 prints and goes on, and "no_id" is a
\* provider without 'provider_id', for which line 45 raises KeyError and the
\* handler's own print raises it again, out of validate_batch.  batch_size
\* is None when not given.
ValidateBatch ==
    /\ pc \in {"ready", "returned", "raised"}
    /\ orchestrator.processing_stats.providers_processed + MaxBatch <= MaxProcessed
    /\ \E batch \in UNION { [1..n -> {"validated", "review", "error", "no_id"}] :
                              n \in 0..MaxBatch } :
       \E given \in BOOLEAN : \E batch_size \in 0..MaxBatch :
          LET sliced == IF given /\ batch_size # 0
                        THEN Prefix(batch, batch_size) ELSE batch
              RECURSIVE Loop(_, _, _)
              Loop(i, results, stats) ==
                  IF i > Len(sliced)
                  THEN [results |-> results, stats |-> stats, raised |-> FALSE]
                  ELSE IF sliced[i] = "no_id"
                  THEN [results |-> results, stats |-> stats, raised |-> TRUE]
                  ELSE IF sliced[i] = "error"
                  THEN Loop(i + 1, results, stats)
                  ELSE Loop(i + 1, Append(results, sliced[i]),
                            [stats EXCEPT
                               !.providers_processed = @ + 1,
                               !.providers_validated =
                                   IF sliced[i] = "validated" THEN @ + 1 ELSE @,
                               !.providers_needing_review =
                                   IF sliced[i] = "review" THEN @ + 1 ELSE @])
              done == Loop(1, <<>>,
                           [orchestrator.processing_stats EXCEPT
                              !.start_time = "datetime",
                              !.total_providers = Len(batch)])
          IN  /\ orchestrator' =
                    IF done.raised
                    THEN [orchestrator EXCEPT !.processing_stats = done.stats]
                    ELSE [validation_results |-> done.results,
                          processing_stats |->
                              [done.stats EXCEPT !.end_time = "datetime"]]
              /\ pc' = IF done.raised THEN "raised" ELSE "returned"
    /\ UNCHANGED <<agent, providers, duplicates, evaluated, merge_input,
                   merge_candidates, report, provider1, provider2, similarity,
                   phone_arg, normalized>>

\* a caller holding a new orchestrator, as __init__ leaves it (lines 22-30),
\* and calling validate_batch on it any number of times
SpecOrchestrator ==
    /\ orchestrator =
          [validation_results |-> <<>>,
           processing_stats |->
              [start_time |-> "None", end_time |-> "None", total_providers |-> 0,
               providers_processed |-> 0, providers_validated |-> 0,
               providers_needing_review |-> 0]]
    /\ agent = NewAgent
    /\ providers = <<>>
    /\ duplicates = <<>>
    /\ evaluated = <<>>
    /\ merge_input = <<>>
    /\ merge_candidates = <<>>
    /\ report = NoReport
    /\ provider1 = EmptyDict
    /\ provider2 = EmptyDict
    /\ similarity = F0
    /\ phone_arg = PyNone
    /\ normalized = <<>>
    /\ pc = "ready"
    /\ [][ValidateBatch]_vars



(***************************************************************************)
(* Properties.  A duplicate record carries its positions in its pair_id;   *)
(* the properties read the similarity of a pair of listed providers from   *)
(* SimilarityTable, the scorer's value for every two records of ListPool.  *)
(***************************************************************************)
SimilarityTable ==
    { <<a, b, calculate_similarity_score(a, b)>> : a \in ListPool, b \in ListPool }

\* calculate_similarity_score(providers[i], providers[j]), positions from 0
SimilarityAt(i, j) ==
    (CHOOSE row \in SimilarityTable :
        row[1] = providers[i + 1] /\ row[2] = providers[j + 1])[3]

\* the pairs of positions the nested loops visit
Positions == { ij \in (0..(Len(providers) - 1)) \X (0..(Len(providers) - 1)) : ij[1] < ij[2] }

\* the positions a duplicate record was built from
PositionsOf(d) == CHOOSE ij \in Positions : pair_id_of(ij[1], ij[2]) = d.pair_id

Returned == pc \in {"found", "merged"}

DuplicateSet == { duplicates[k] : k \in 1..Len(duplicates) }

NonIncreasing(scores) ==
    \A k \in 1..(Len(scores) - 1) : scores[k] >= scores[k + 1]

\* FIELD_WEIGHTS' values summed as sum() does, in the order of the dict
WeightSum ==
    FAdd(FAdd(FAdd(FAdd(FAdd(FAdd(F0, FIELD_WEIGHTS.npi), FIELD_WEIGHTS.name),
                        FIELD_WEIGHTS.phone), FIELD_WEIGHTS.address),
              FIELD_WEIGHTS.license), FIELD_WEIGHTS.specialty)

InUnitInterval(x) == FGeq(x, F0) /\ FGeq(F1, x)

\* C1: calculate_similarity_score(a, b) lies in [0, 1] for every two records,
\* absent fields included: the fuzzy sub-scores lie in [0, 1] and the weights
\* of FIELD_WEIGHTS sum to exactly 1.0.
C1_ScoreInUnitInterval ==
    /\ WeightSum = F1
    /\ pc = "scored" =>
          /\ InUnitInterval(similarity)
          /\ InUnitInterval(string_similarity(strip(lower(full_name(provider1))),
                                              strip(lower(full_name(provider2)))))
          /\ InUnitInterval(string_similarity(normalize_address(provider1),
                                              normalize_address(provider2)))

\* two different records whose score reaches the upper end, 1.0
C1_Witness ==
    /\ pc = "scored"
    /\ provider1 # provider2
    /\ similarity = F1

\* C2: calculate_similarity_score(a, b) = calculate_similarity_score(b, a).
C2_ScoreSymmetric ==
    pc = "scored" => similarity = calculate_similarity_score(provider2, provider1)

\* two records with related, unequal specialties and unequal token sets
C2_Witness ==
    /\ pc = "scored"
    /\ Get(provider1, "specialty", EmptyStr) # Get(provider2, "specialty", EmptyStr)
    /\ specialties_related(lower(Get(provider1, "specialty", EmptyStr).s),
                           lower(Get(provider2, "specialty", EmptyStr).s))
    /\ normalize_address(provider1) # normalize_address(provider2)
    /\ FLess(F0, string_similarity(normalize_address(provider1),
                                   normalize_address(provider2)))

\* the fields C3 names
ScoredFields == {"npi", "first_name", "last_name", "phone", "address", "city",
                 "state", "zip_code", "license_number", "specialty"}

AllNonEmpty(r) == \A f \in ScoredFields : Get(r, f, EmptyStr).s # <<>>

\* what the scorer compares is non-empty too: an npi and a license that are
\* not only whitespace, a phone with a digit, a name with a letter
NonEmptyNormalised(r) ==
    /\ AllNonEmpty(r)
    /\ strip(Get(r, "npi", EmptyStr).s) # <<>>
    /\ strip(upper(Get(r, "license_number", EmptyStr).s)) # <<>>
    /\ normalize_phone(Get(r, "phone", EmptyStr)) # <<>>
    /\ strip(lower(full_name(r))) # <<>>

\* the pair at positions ij scores 1.0, and its duplicate record, where the
\* finder built one, says 100.0, Very High and is an auto-merge candidate
ScoresAsIdentical(ij) ==
    /\ SimilarityAt(ij[1], ij[2]) = F1
    /\ \A d \in DuplicateSet :
          d.pair_id = pair_id_of(ij[1], ij[2]) =>
             /\ d.similarity_score = Tenths(100)
             /\ d.confidence = "Very High"
             /\ pc = "merged" =>
                   \E k \in 1..Len(merge_candidates) :
                      /\ merge_candidates[k].pair_id = d.pair_id
                      /\ merge_candidates[k].auto_merge_eligible

\* C3 as claimed: a record whose ten fields are all non-empty, compared with an
\* exact copy of itself, scores 1.0 (100.0, Very High, auto-merge eligible).
C3_SelfIdentityAsClaimed ==
    Returned =>
       \A ij \in Positions :
          /\ providers[ij[1] + 1] = providers[ij[2] + 1]
          /\ AllNonEmpty(providers[ij[1] + 1])
          => ScoresAsIdentical(ij)

\* C3 amended: a record whose ten fields are all non-empty and whose npi,
\* license_number, phone and name stay non-empty when the scorer normalises
\* them, compared with an exact copy of itself, scores 1.0 (100.0, Very High,
\* auto-merge eligible).
C3_SelfIdentity ==
    Returned =>
       \A ij \in Positions :
          /\ providers[ij[1] + 1] = providers[ij[2] + 1]
          /\ NonEmptyNormalised(providers[ij[1] + 1])
          => ScoresAsIdentical(ij)

\* a record and its copy were listed, flagged and suggested for merging
C3_Witness ==
    /\ pc = "merged"
    /\ \E ij \in Positions :
          /\ providers[ij[1] + 1] = providers[ij[2] + 1]
          /\ NonEmptyNormalised(providers[ij[1] + 1])
          /\ \E d \in DuplicateSet : d.pair_id = pair_id_of(ij[1], ij[2])
          /\ \E k \in 1..Len(merge_candidates) :
                merge_candidates[k].pair_id = pair_id_of(ij[1], ij[2])

\* C4: no returned duplicate record has similarity_score < 75.0; each has an
\* unrounded similarity >= 0.75 and a confidence other than Low.
C4_ThresholdGate ==
    Returned =>
       \A d \in DuplicateSet :
          /\ d.similarity_score >= Tenths(75)
          /\ FGeq(SimilarityAt(PositionsOf(d)[1], PositionsOf(d)[2]), Float075)
          /\ d.confidence # "Low"

\* a list with a flagged pair in the lowest tier and a pair that was not flagged
C4_Witness ==
    /\ pc = "found"
    /\ \E d \in DuplicateSet : d.similarity_score < Tenths(80)
    /\ \E ij \in Positions :
          /\ ~FGeq(SimilarityAt(ij[1], ij[2]), Float075)
          /\ \A d \in DuplicateSet : d.pair_id # pair_id_of(ij[1], ij[2])

\* C5: the returned list is non-increasing in similarity_score.
C5_SortedDescending ==
    Returned =>
       NonIncreasing([k \in 1..Len(duplicates) |-> duplicates[k].similarity_score])

\* the sort moved a later pair of the loop in front of an earlier one
C5_Witness ==
    /\ pc = "found"
    /\ \E k \in 1..(Len(duplicates) - 1) :
          /\ duplicates[k].similarity_score > duplicates[k + 1].similarity_score
          /\ StrLessFrom(duplicates[k + 1].pair_id, duplicates[k].pair_id, 1)

\* C6 as claimed: whatever the provider ids, every pair of positions i < j
\* whose similarity is >= 0.75 has a duplicate record in the returned list.
C6_Complete ==
    Returned =>
       \A ij \in Positions :
          FGeq(SimilarityAt(ij[1], ij[2]), SIMILARITY_THRESHOLD) =>
             \E d \in DuplicateSet : d.pair_id = pair_id_of(ij[1], ij[2])

MergeInputSet == { merge_input[k] : k \in 1..Len(merge_input) }

\* C7: every merge candidate belongs to an input pair with similarity_score
\* >= 85, and the candidates' pair_ids are among those of the input pairs with
\* similarity_score >= 85.
C7_MergeSubset ==
    pc = "merged" =>
       /\ \A k \in 1..Len(merge_candidates) :
             \E d \in MergeInputSet :
                /\ d.pair_id = merge_candidates[k].pair_id
                /\ d.similarity_score >= Tenths(85)
                /\ merge_candidates[k].similarity >= Tenths(85)
       /\ { merge_candidates[k].pair_id : k \in 1..Len(merge_candidates) }
             \subseteq { d.pair_id : d \in { e \in MergeInputSet :
                                               e.similarity_score >= Tenths(85) } }

\* some pairs of the input became candidates and a pair below 85 did not
C7_Witness ==
    /\ pc = "merged"
    /\ merge_candidates # <<>>
    /\ \E d \in MergeInputSet : d.similarity_score < Tenths(85)

\* the input pairs with similarity_score >= 85, in input order
Qualifying == SelectSeq(merge_input, LAMBDA d : d.similarity_score >= Tenths(85))

\* C8: the candidates are, in input order, one for each input pair with
\* similarity_score >= 85; for the finder's own output they are non-increasing
\* in similarity.
C8_OrderPreservingFilter ==
    pc = "merged" =>
       /\ Len(merge_candidates) = Len(Qualifying)
       /\ \A k \in 1..Len(merge_candidates) :
             /\ merge_candidates[k].pair_id = Qualifying[k].pair_id
             /\ merge_candidates[k].similarity = Qualifying[k].similarity_score
             /\ merge_candidates[k].providers
                   = <<Qualifying[k].provider_1, Qualifying[k].provider_2>>
       /\ merge_input = duplicates =>
             NonIncreasing([k \in 1..Len(merge_candidates) |->
                               merge_candidates[k].similarity])

\* an input in ascending order, of which two pairs of different scores qualify
C8_Witness ==
    /\ pc = "merged"
    /\ merge_input # duplicates
    /\ \E k \in 1..(Len(merge_candidates) - 1) :
          merge_candidates[k].similarity < merge_candidates[k + 1].similarity
    /\ Len(merge_candidates) < Len(merge_input)

\* C9: a candidate is auto_merge_eligible iff the rounded percentage of its
\* pair is >= 95.
C9_AutoMergeIff ==
    pc = "merged" =>
       \A k \in 1..Len(merge_candidates) :
          \A d \in MergeInputSet :
             d.pair_id = merge_candidates[k].pair_id =>
                (merge_candidates[k].auto_merge_eligible
                    <=> d.similarity_score >= Tenths(95))

\* an eligible candidate and one that is not, in one list
C9_Witness ==
    /\ pc = "merged"
    /\ \E k \in 1..Len(merge_candidates) : merge_candidates[k].auto_merge_eligible
    /\ \E k \in 1..Len(merge_candidates) : ~merge_candidates[k].auto_merge_eligible

\* the confidence and the action the thresholds give a similarity
TierOf(s) ==
    IF FGeq(s, Float095) THEN <<"Very High", "Auto-merge recommended">>
    ELSE IF FGeq(s, Float085) THEN <<"High", "Manual review and merge">>
    ELSE IF FGeq(s, Float075) THEN <<"Medium", "Review for potential merge">>
    ELSE <<"Low", "Monitor - likely different providers">>

\* C10: confidence and recommended_action of every returned pair follow the
\* same thresholds on its similarity (0.95, 0.85, 0.75), and Low never appears.
C10_TiersAgree ==
    Returned =>
       \A d \in DuplicateSet :
          /\ <<d.confidence, d.recommended_action>>
                = TierOf(SimilarityAt(PositionsOf(d)[1], PositionsOf(d)[2]))
          /\ d.confidence # "Low"

\* one returned list with pairs in two tiers
C10_Witness ==
    /\ pc = "found"
    /\ \E d \in DuplicateSet : d.confidence = "Very High"
    /\ \E d \in DuplicateSet : d.confidence = "Medium"

\* a record with nothing but its provider_id
OnlyProviderId(r) == DOMAIN r = {"provider_id"}

\* every field the record has holds a str
WellFormed(r) == \A f \in DOMAIN r : r[f].t = "str"

Float030 == FDivInt(30, 100)

\* C11: a record with only provider_id, compared with a well-formed record or
\* with another record missing all fields, is scored without raising, below
\* 0.3 and so below the threshold of the duplicate list.
C11_MissingFieldsScoreLow ==
    /\ pc \in {"scored", "raised"}
    /\ \/ OnlyProviderId(provider1) /\ WellFormed(provider2)
       \/ OnlyProviderId(provider2) /\ WellFormed(provider1)
    => /\ pc = "scored"
       /\ FLess(similarity, Float030)
       /\ ~FGeq(similarity, SIMILARITY_THRESHOLD)

\* two records missing all fields, whose equal (empty) specialties give the
\* highest score such a pair gets
C11_Witness ==
    /\ pc = "scored"
    /\ OnlyProviderId(provider1)
    /\ OnlyProviderId(provider2)
    /\ similarity = FIELD_WEIGHTS.specialty

\* C12 as claimed: no exception escapes find_potential_duplicates or
\* generate_deduplication_report, whatever the types of the field values.
C12_NeverRaises == pc # "raised"

\* C13: for the empty list, find_potential_duplicates returns the empty list
\* and the report has all four counts 0 and empty by_confidence, duplicates,
\* merge_candidates and recommendations; neither call raises.
C13_EmptyInput ==
    providers = <<>> =>
       /\ pc # "raised"
       /\ duplicates = <<>>
       /\ report # NoReport =>
             /\ report.summary = [total_providers_analyzed   |-> 0,
                                  potential_duplicates_found |-> 0,
                                  merge_candidates           |-> 0,
                                  auto_merge_eligible        |-> 0]
             /\ DOMAIN report.by_confidence = {}
             /\ report.duplicates = <<>>
             /\ report.merge_candidates = <<>>
             /\ report.recommendations = <<>>

\* both calls were made for the empty list
C13_Witness ==
    /\ providers = <<>>
    /\ pc = "merged"
    /\ report # NoReport

Field(r, f) == Get(r, f, EmptyStr)

\* the scenario of C14: the same NPI and name (neither blank), phones with
\* the same ten digits, the same specialty, city, state and zip code, and
\* different street addresses
SameProviderMoved(a, b) ==
    /\ WellFormed(a) /\ WellFormed(b)
    /\ Field(a, "npi") = Field(b, "npi") /\ strip(Field(a, "npi").s) # <<>>
    /\ Field(a, "first_name") = Field(b, "first_name")
    /\ Field(a, "last_name") = Field(b, "last_name")
    /\ strip(full_name(a)) # <<>>
    /\ normalize_phone(Field(a, "phone")) = normalize_phone(Field(b, "phone"))
    /\ Len(normalize_phone(Field(a, "phone"))) = 10
    /\ Field(a, "specialty") = Field(b, "specialty")
    /\ Field(a, "city") = Field(b, "city")
    /\ Field(a, "state") = Field(b, "state")
    /\ Field(a, "zip_code") = Field(b, "zip_code")
    /\ Field(a, "address") # Field(b, "address")

\* the license numbers as line 108-109 compare them, equal and not empty
SameLicense(a, b) ==
    /\ strip(upper(Field(a, "license_number").s))
          = strip(upper(Field(b, "license_number").s))
    /\ strip(upper(Field(a, "license_number").s)) # <<>>

SharedTokens(s1, s2) == ToSet(split(lower(s1))) \cap ToSet(split(lower(s2)))

\* the scenario of C15: no NPI, the same specialty, and different names,
\* phones, addresses and license numbers
SharesOnlySpecialty(a, b) ==
    /\ WellFormed(a) /\ WellFormed(b)
    /\ strip(Field(a, "npi").s) = <<>> /\ strip(Field(b, "npi").s) = <<>>
    /\ Field(a, "specialty") = Field(b, "specialty")
    /\ strip(lower(full_name(a))) # strip(lower(full_name(b)))
    /\ normalize_phone(Field(a, "phone")) # normalize_phone(Field(b, "phone"))
    /\ normalize_address(a) # normalize_address(b)
    /\ strip(upper(Field(a, "license_number").s))
          # strip(upper(Field(b, "license_number").s))

\* the differing fields have no token in common either
SharesNoToken(a, b) ==
    /\ SharedTokens(full_name(a), full_name(b)) = {}
    /\ SharedTokens(normalize_address(a), normalize_address(b)) = {}
    /\ SharedTokens(Field(a, "license_number").s, Field(b, "license_number").s) = {}
    /\ SharedTokens(normalize_phone(Field(a, "phone")),
                    normalize_phone(Field(b, "phone"))) = {}

C16_EvaluatedAtMostOnce ==
    \A m, n \in 1..Len(evaluated) : m # n => evaluated[m] # evaluated[n]

\* the report of a call that returned one
Reported == report # NoReport

\* the number by_confidence gives a label, 0 if it is no key
ConfidenceCount(label) ==
    IF label \in DOMAIN report.by_confidence THEN report.by_confidence[label] ELSE 0

\* the first n elements of a list, all of it if it has no more
FirstN(list, n) == SubSeq(list, 1, IF Len(list) < n THEN Len(list) ELSE n)

\* C17: the report's summary counts the providers, all pairs found, all merge
\* candidates and the auto-merge eligible ones; its lists are the first
\* min(50, found) pairs and the first min(20, candidates) candidates; the
\* by_confidence counts add up to the pairs found, and auto_merge_eligible
\* <= merge_candidates <= potential_duplicates_found.
C17_ReportCounts ==
    Reported =>
       \E found \in {find_potential_duplicates(providers)} :
       \E candidates \in {suggest_merge_candidates(found)} :
          /\ report.summary.total_providers_analyzed = Len(providers)
          /\ report.summary.potential_duplicates_found = Len(found)
          /\ report.summary.merge_candidates = Len(candidates)
          /\ report.summary.auto_merge_eligible
                = Cardinality({ k \in 1..Len(candidates) :
                                   candidates[k].auto_merge_eligible })
          /\ report.duplicates = FirstN(found, 50)
          /\ report.merge_candidates = FirstN(candidates, 20)
          /\ NonIncreasing([k \in 1..Len(report.duplicates) |->
                               report.duplicates[k].similarity_score])
          /\ ConfidenceCount("Very High") + ConfidenceCount("High")
                + ConfidenceCount("Medium") + ConfidenceCount("Low") = Len(found)
          /\ DOMAIN report.by_confidence
                \subseteq {"Very High", "High", "Medium", "Low"}
          /\ report.summary.auto_merge_eligible <= report.summary.merge_candidates
          /\ report.summary.merge_candidates
                <= report.summary.potential_duplicates_found

\* a report whose two lists were both cut
C17_Witness ==
    /\ Reported
    /\ report.summary.potential_duplicates_found > 50
    /\ Len(report.duplicates) = 50
    /\ report.summary.merge_candidates > 20
    /\ Len(report.merge_candidates) = 20
    /\ report.summary.auto_merge_eligible < report.summary.merge_candidates

\* C18: whatever calls were made on the instance and in whatever order, its
\* fields duplicate_pairs and merge_candidates are empty, no call changes the
\* instance, the provider list or the pairs it was given, and each result is
\* what the call gives for its argument alone.
C18_Stateless ==
    /\ [](/\ agent = NewAgent
          /\ pc \in {"found", "merged"} =>
                duplicates = find_potential_duplicates(providers)
          /\ pc = "merged" =>
                merge_candidates = suggest_merge_candidates(merge_input)
          /\ Reported => report = generate_deduplication_report(providers))
    /\ [][/\ agent' = agent
          /\ providers' = providers
          /\ pc # "ready" => duplicates' = duplicates
          /\ pc = "merged" => merge_input' = merge_input]_vars

\* all three calls were made, the report last, and there is something to merge
C18_Witness ==
    /\ pc = "merged"
    /\ Reported
    /\ merge_candidates # <<>>
    /\ agent = NewAgent

\* every record has a provider_id, a str, and no two have the same
DistinctPresentIds ==
    /\ \A k \in 1..Len(providers) :
          "provider_id" \in DOMAIN providers[k] /\ providers[k].provider_id.t = "str"
    /\ \A m, n \in 1..Len(providers) :
          m # n => providers[m].provider_id # providers[n].provider_id

\* the pairs the nested loop over i < j flags when it has no guard, from the
\* pair (i, j) on, in the order of the loop
RECURSIVE PlainLoopFrom(_, _)
PlainLoopFrom(i, j) ==
    IF i >= Len(providers) THEN <<>>
    ELSE IF j >= Len(providers) THEN PlainLoopFrom(i + 1, i + 2)
    ELSE (IF FGeq(SimilarityAt(i, j), SIMILARITY_THRESHOLD)
          THEN <<duplicate_record(i, j, providers[i + 1], providers[j + 1],
                                  SimilarityAt(i, j))>>
          ELSE <<>>)
         \o PlainLoopFrom(i, j + 1)

\* C19: when all provider_id values are present and distinct, the guard skips
\* no pair, and the call returns the very sequence the nested loop over i < j
\* without the guard returns.
C19_GuardRedundant ==
    Returned /\ DistinctPresentIds =>
       /\ Len(evaluated) = Cardinality(Positions)
       /\ duplicates = SortByScoreDesc(PlainLoopFrom(0, 1), Len(PlainLoopFrom(0, 1)))

\* three records with three ids, and more than one pair of them flagged
C19_Witness ==
    /\ pc = "found"
    /\ DistinctPresentIds
    /\ Len(providers) = 3
    /\ Len(duplicates) >= 2

\* the digit characters of str(phone), none for a phone that is falsy
PhoneDigits(v) == IF Truthy(v) THEN SelectSeq(v.s, LAMBDA c : c \in Digits) ELSE <<>>

\* the rule in words: without a leading '1' if there are 11 digits, and then
\* the last 10 of them, or all if there are fewer
RuleOfTen(digits) ==
    IF Len(digits) = 11 /\ digits[1] = "1" THEN SubSeq(digits, 2, 11)
    ELSE IF Len(digits) >= 10 THEN SubSeq(digits, Len(digits) - 9, Len(digits))
    ELSE digits

\* what the claim says of one call, apart from the country code
NormalizedByRule ==
    /\ pc = "normalized" =>
          /\ \A k \in 1..Len(normalized) : normalized[k] \in Digits
          /\ Len(normalized) <= 10
          /\ normalized = RuleOfTen(PhoneDigits(phone_arg))
          /\ \A other \in PhonePool :
                PhoneDigits(other) = PhoneDigits(phone_arg)
                   => normalize_phone(other) = normalized
    /\ pc = "renormalized" => normalized = phone_arg.s

\* C20 as claimed: the result is digits only, at most 10, made by the rule,
\* normalizing it again changes nothing, and any two phones that differ only
\* in punctuation or in a leading country code '1' normalize to the same str.
C20_NormalizePhoneAsClaimed ==
    /\ NormalizedByRule
    /\ pc = "normalized" =>
          \A other \in PhonePool :
             PhoneDigits(other) = <<"1">> \o PhoneDigits(phone_arg)
                => normalize_phone(other) = normalized

\* C20: the same, with the country code '1' put before a number of ten digits
\* or more; before a shorter number it is kept as a digit of the number.
C20_NormalizePhone ==
    /\ NormalizedByRule
    /\ pc = "normalized" =>
          \A other \in PhonePool :
             PhoneDigits(other) = <<"1">> \o PhoneDigits(phone_arg)
                => IF Len(PhoneDigits(phone_arg)) >= 10
                   THEN normalize_phone(other) = normalized
                   ELSE normalize_phone(other) = <<"1">> \o normalized

\* a ten-digit number was normalized that the pool also has written another
\* way and with the country code
C20_Witness ==
    /\ pc = "normalized"
    /\ Len(PhoneDigits(phone_arg)) = 10
    /\ Len(normalized) = 10
    /\ \E other \in PhonePool :
          other # phone_arg /\ PhoneDigits(other) = PhoneDigits(phone_arg)
    /\ \E other \in PhonePool :
          PhoneDigits(other) = <<"1">> \o PhoneDigits(phone_arg)

\* the names of the entries of a fields_to_merge list, in order
FieldNames(fields) == [k \in 1..Len(fields) |-> fields[k].field]

\* the pair of merge_input a merge candidate was made from
PairOf(candidate) ==
    CHOOSE d \in { merge_input[k] : k \in 1..Len(merge_input) } :
        d.pair_id = candidate.pair_id

\* C22: every merge candidate's primary_record is the provider_id of the
\* record that stands first in the input list, and its fields_to_merge is
\* 'phone' if the two records' phone values differ, then 'address' if their
\* formatted addresses differ, and nothing else.
C22_PrimaryAndMergeFields ==
    pc = "merged" =>
       \A k \in 1..Len(merge_candidates) :
          \E ij \in {PositionsOf(PairOf(merge_candidates[k]))} :
             /\ ij[1] < ij[2]
             /\ merge_candidates[k].primary_record
                   = Get(providers[ij[1] + 1], "provider_id", EmptyStr)
             /\ FieldNames(merge_candidates[k].fields_to_merge)
                   = (IF Get(providers[ij[1] + 1], "phone", EmptyStr)
                          # Get(providers[ij[2] + 1], "phone", EmptyStr)
                      THEN <<"phone">> ELSE <<>>)
                     \o
                     (IF format_address(providers[ij[1] + 1])
                          # format_address(providers[ij[2] + 1])
                      THEN <<"address">> ELSE <<>>)

\* one candidate with both entries, its phones written differently for the
\* same number, and one candidate with no entry
C22_Witness ==
    /\ pc = "merged"
    /\ \E k \in 1..Len(merge_candidates) :
          /\ FieldNames(merge_candidates[k].fields_to_merge) = <<"phone", "address">>
          /\ normalize_phone(merge_candidates[k].providers[1].phone)
                = normalize_phone(merge_candidates[k].providers[2].phone)
    /\ \E k \in 1..Len(merge_candidates) :
          merge_candidates[k].fields_to_merge = <<>>

\* a position below 10000 as four decimal digits
FourDigits(n) ==
    << DigitChars[((n \div 1000) % 10) + 1], DigitChars[((n \div 100) % 10) + 1],
       DigitChars[((n \div 10) % 10) + 1], DigitChars[(n % 10) + 1] >>

\* C23: every returned pair has the pair_id 'DUP-<i>-<j>' (positions written
\* with four digits) of two positions i < j of the input list, its
\* provider_1 made of the record at i and its provider_2 of the record at j;
\* no two returned pairs have the same pair_id.
C23_PairIdsArePositions ==
    Returned =>
       /\ \A k \in 1..Len(duplicates) :
             \E ij \in Positions :
                /\ ij[1] < ij[2]
                /\ duplicates[k].pair_id
                      = <<"D","U","P","-">> \o FourDigits(ij[1]) \o <<"-">>
                           \o FourDigits(ij[2])
                /\ duplicates[k].provider_1 = projection(providers[ij[1] + 1])
                /\ duplicates[k].provider_2 = projection(providers[ij[2] + 1])
       /\ \A m, n \in 1..Len(duplicates) :
             m # n => duplicates[m].pair_id # duplicates[n].pair_id

\* the pair of the last two of eleven records, DUP-0009-0010, among the
\* pairs returned
C23_Witness ==
    /\ pc = "found"
    /\ Len(providers) = 11
    /\ \E k \in 1..Len(duplicates) :
          duplicates[k].pair_id
             = <<"D","U","P","-","0","0","0","9","-","0","0","1","0">>

\* what the claim says of the matching_fields list `fields` of the records a
\* and b, apart from the NPI term: the order, the two name entries, the
\* comparison behind each entry (case and phone punctuation set aside), and
\* 'Phone' for a phone term of the full weight
MatchingFieldsInOrder(fields, a, b) ==
    /\ fields = SelectSeq(<<"NPI", "Full Name", "Last Name", "Phone", "Specialty",
                            "State">>,
                          LAMBDA f : f \in ToSet(fields))
    /\ ~({"Full Name", "Last Name"} \subseteq ToSet(fields))
    /\ "NPI" \in ToSet(fields) => Get(a, "npi", PyNone) = Get(b, "npi", PyNone)
    /\ "Full Name" \in ToSet(fields) => lower(full_name(a)) = lower(full_name(b))
    /\ "Last Name" \in ToSet(fields) =>
          lower(Field(a, "last_name").s) = lower(Field(b, "last_name").s)
    /\ "Phone" \in ToSet(fields) =>
          normalize_phone(Field(a, "phone")) = normalize_phone(Field(b, "phone"))
    /\ "Specialty" \in ToSet(fields) =>
          lower(Field(a, "specialty").s) = lower(Field(b, "specialty").s)
    /\ "State" \in ToSet(fields) =>
          upper(Field(a, "state").s) = upper(Field(b, "state").s)
    /\ phone_term(F0, a, b) = FIELD_WEIGHTS.phone => "Phone" \in ToSet(fields)

\* the NPI term added its weight to the score of a and b
NpiContributed(a, b) == npi_term(a, b) = FIELD_WEIGHTS.npi

\* C24 as claimed: matching_fields keeps the order NPI, Full Name or Last
\* Name, Phone, Specialty, State, lists a field only when its values matched,
\* lists 'Phone' whenever the phone term had its full weight, and lists 'NPI'
\* whenever the NPI term contributed its 0.30.
C24_MatchingFieldsAsClaimed ==
    Returned =>
       \A k \in 1..Len(duplicates) :
          \E ij \in {PositionsOf(duplicates[k])} :
             /\ MatchingFieldsInOrder(duplicates[k].matching_fields,
                                      providers[ij[1] + 1], providers[ij[2] + 1])
             /\ NpiContributed(providers[ij[1] + 1], providers[ij[2] + 1])
                   => "NPI" \in ToSet(duplicates[k].matching_fields)

\* C24 amended: the same, with 'NPI' listed exactly when the two npi values
\* are equal as they are stored (both absent included), which the NPI term's
\* contribution does not imply: the term compares them after str() and strip().
C24_MatchingFields ==
    Returned =>
       \A k \in 1..Len(duplicates) :
          \E ij \in {PositionsOf(duplicates[k])} :
             /\ MatchingFieldsInOrder(duplicates[k].matching_fields,
                                      providers[ij[1] + 1], providers[ij[2] + 1])
             /\ "NPI" \in ToSet(duplicates[k].matching_fields)
                   <=> Get(providers[ij[1] + 1], "npi", PyNone)
                          = Get(providers[ij[2] + 1], "npi", PyNone)

\* a pair whose NPI term contributed and whose NPI is not listed, one value
\* having a blank behind it
C24_Witness ==
    /\ pc = "found"
    /\ \E k \in 1..Len(duplicates) :
          \E ij \in {PositionsOf(duplicates[k])} :
             /\ NpiContributed(providers[ij[1] + 1], providers[ij[2] + 1])
             /\ duplicates[k].matching_fields
                   = <<"Full Name", "Phone", "Specialty", "State">>

\* the recommendations of the report that are the message `before` N `after`
MessagesLike(before, after) ==
    { report.recommendations[k] : k \in 1..Len(report.recommendations) }
       \cap { <<before, DecimalDigits(n), after>> : n \in 0..99 }

\* C25: the report's recommendations are empty exactly when no duplicates
\* were found; 'Review and merge N high-confidence duplicate pairs' is there
\* exactly when summary.merge_candidates > 0, with that number as N; 'N pairs
\* are eligible for automatic merging' is there exactly when
\* summary.auto_merge_eligible > 0, with that number as N.
C25_Recommendations ==
    Reported =>
       /\ report.recommendations = <<>>
             <=> report.summary.potential_duplicates_found = 0
       /\ MessagesLike("Review and merge ", " high-confidence duplicate pairs")
             = IF report.summary.merge_candidates > 0
               THEN { <<"Review and merge ",
                        DecimalDigits(report.summary.merge_candidates),
                        " high-confidence duplicate pairs">> }
               ELSE {}
       /\ MessagesLike("", " pairs are eligible for automatic merging")
             = IF report.summary.auto_merge_eligible > 0
               THEN { <<"", DecimalDigits(report.summary.auto_merge_eligible),
                        " pairs are eligible for automatic merging">> }
               ELSE {}

\* a report of 55 candidates, 31 of them eligible for automatic merging
C25_Witness ==
    /\ Reported
    /\ report.summary.merge_candidates = 55
    /\ report.summary.auto_merge_eligible = 31
    /\ Len(report.recommendations) = 4

\* the npi of a record as line 82 reads it: str() and strip()
TrimmedNpi(r) == strip(Field(r, "npi").s)

\* the two NPIs are both non-empty and equal
SameNpi(a, b) == TrimmedNpi(a) # <<>> /\ TrimmedNpi(a) = TrimmedNpi(b)

\* the most the five terms other than the NPI term add up to, summed as the
\* scorer sums them: 0.25 + 0.15 + 0.15 + 0.10 + 0.05, the float
\* 0.7000000000000001
WithoutNpiAtMost ==
    FAdd(FAdd(FAdd(FAdd(FAdd(F0, FIELD_WEIGHTS.name), FIELD_WEIGHTS.phone),
                   FIELD_WEIGHTS.address), FIELD_WEIGHTS.license),
         FIELD_WEIGHTS.specialty)

IdPair(d) == {d.provider_1.id, d.provider_2.id}

\* the unordered pair of ids of the records at two positions, as line 37
\* reads them
IdPairAt(ij) == { Get(providers[ij[1] + 1], "provider_id", EmptyStr),
                  Get(providers[ij[2] + 1], "provider_id", EmptyStr) }

\* C27: no two pairs of the returned list show the same unordered pair of
\* provider ids, whatever ids the list holds: repeated or absent ones too.
C27_NoTwoPairsShareIds ==
    Returned =>
       \A k \in 1..Len(duplicates) : \A l \in 1..Len(duplicates) :
          k # l => IdPair(duplicates[k]) # IdPair(duplicates[l])

\* a list with an id that repeats or is absent, two pairs of positions with
\* the same ids that both reach the threshold, and one of them returned
C27_Witness ==
    /\ pc = "found"
    /\ \E ij \in Positions : \E kl \in Positions :
          /\ ij # kl
          /\ IdPairAt(ij) = IdPairAt(kl)
          /\ "provider_id" \notin DOMAIN providers[ij[1] + 1]
          /\ FGeq(SimilarityAt(ij[1], ij[2]), SIMILARITY_THRESHOLD)
          /\ FGeq(SimilarityAt(kl[1], kl[2]), SIMILARITY_THRESHOLD)
          /\ Cardinality({ k \in 1..Len(duplicates) :
                              IdPair(duplicates[k]) = IdPairAt(ij) }) = 1

\* position pair ij comes before kl in the nested loops of lines 35-36
LoopOrder(ij, kl) == ij[1] < kl[1] \/ (ij[1] = kl[1] /\ ij[2] < kl[2])

\* C29: of two returned pairs with the same similarity_score, the one the
\* nested loops reached first (lower i, then lower j) stands first.
C29_TiesKeepLoopOrder ==
    Returned =>
       \A k \in 1..Len(duplicates) : \A l \in 1..Len(duplicates) :
          (k < l /\ duplicates[k].similarity_score = duplicates[l].similarity_score)
             => LoopOrder(PositionsOf(duplicates[k]), PositionsOf(duplicates[l]))

\* a returned list where two pairs with the same score follow a pair with a
\* higher score that the loops reached after one of them
C29_Witness ==
    /\ pc = "found"
    /\ Len(duplicates) = 3
    /\ duplicates[1].similarity_score > duplicates[2].similarity_score
    /\ duplicates[2].similarity_score = duplicates[3].similarity_score
    /\ LoopOrder(PositionsOf(duplicates[2]), PositionsOf(duplicates[1]))

\* the merge candidates the report shows for a duplicate record
CandidatesOf(d) ==
    { k \in 1..Len(report.merge_candidates) :
         report.merge_candidates[k].pair_id = d.pair_id }

\* C28: for every pair found, confidence is 'Very High' exactly when its merge
\* candidate exists and is auto_merge_eligible, and a merge candidate exists
\* exactly when confidence is 'High' or 'Very High'; read off a report that
\* shows every pair and every candidate.
C28_TierAgreesWithMerge ==
    (/\ Reported
     /\ report.summary.potential_duplicates_found = Len(report.duplicates)
     /\ report.summary.merge_candidates = Len(report.merge_candidates)) =>
       \A k \in 1..Len(report.duplicates) :
          /\ (report.duplicates[k].confidence = "Very High")
                <=> (\E m \in CandidatesOf(report.duplicates[k]) :
                        report.merge_candidates[m].auto_merge_eligible)
          /\ (CandidatesOf(report.duplicates[k]) # {})
                <=> (report.duplicates[k].confidence \in {"High", "Very High"})

\* the lower-cased whitespace tokens of a string
TokensOf(s) == ToSet(split(lower(s)))

\* |T1 \cap T2| / |T1 \cup T2| for the token sets of two strings, and 0.0
\* when a string is empty or has no token
JaccardOf(a, b) ==
    IF a = <<>> \/ b = <<>> \/ TokensOf(a) = {} \/ TokensOf(b) = {} THEN F0
    ELSE FDivInt(Cardinality(TokensOf(a) \cap TokensOf(b)),
                 Cardinality(TokensOf(a) \cup TokensOf(b)))

\* the pairs of strings lines 89-91 and 102-104 pass to _string_similarity for the
\* two records scored
SimilarityInputs ==
    { <<strip(lower(full_name(provider1))), strip(lower(full_name(provider2)))>>,
      <<normalize_address(provider1), normalize_address(provider2)>> }

\* C21: _string_similarity gives the Jaccard index of the two lower-cased
\* token sets, 0.0 when either string is empty or has no token, the same
\* string twice included, and 1.0 exactly when the token sets are equal and
\* non-empty.
C21_JaccardOfTokens ==
    pc = "scored" =>
       \A in \in SimilarityInputs :
          /\ string_similarity(in[1], in[2]) = JaccardOf(in[1], in[2])
          /\ (string_similarity(in[1], in[2]) = F1)
                <=> (TokensOf(in[1]) = TokensOf(in[2]) /\ TokensOf(in[1]) # {})

\* C30: after any sequence of validate_batch calls on one orchestrator,
\* providers_processed equals the number of results in validation_results,
\* equals providers_validated + providers_needing_review, and does not exceed
\* total_providers.
C30_StatsMatchResults ==
    pc = "returned" =>
       /\ orchestrator.processing_stats.providers_processed
             = Len(orchestrator.validation_results)
       /\ orchestrator.processing_stats.providers_processed
             = orchestrator.processing_stats.providers_validated
               + orchestrator.processing_stats.providers_needing_review
       /\ orchestrator.processing_stats.providers_processed
             <= orchestrator.processing_stats.total_providers

=============================================================================
